---- MODULE Spec2Model ----
(***************************************************************************)
(* Memory and context-assembly subsystem of the voice-agent backend:       *)
(*   - CustomerDatabase   (src/services/customer_db.py)                    *)
(*   - SmartMemory        (src/services/memory.py)                         *)
(*   - ConversationManager (src/services/conversation.py)                  *)
(*                                                                         *)
(* Python strings are modelled as sequences of one-character strings, so   *)
(* that lower(), strip(), replace() and the f-string that builds the       *)
(* directory key are computed and not assumed.  A Python dict is a         *)
(* function whose DOMAIN is the set of keys present.  The Python value     *)
(* True is modelled by the string "True" (str(True)); every other fact     *)
(* value is a string.  An empty string is the only falsy value.            *)
(***************************************************************************)
EXTENDS Naturals, Sequences, FiniteSets, TLC

VARIABLES
    customers,      \* customer_db.customers : key -> entry (dict of facts)
    sessions,       \* smart_memory.sessions : session id -> session record
    conversations,  \* conversation_manager.conversations : id -> record
    thr,            \* request threads in the middle of a call or of a stream
    lastOp,         \* history variable: the operation performed last
    nOps            \* history variable: number of operations performed

vars == <<customers, sessions, conversations, thr, lastOp, nOps>>

----------------------------------------------------------------------------
(* Bounds of the model.                                                    *)

MaxOps == 4
MaxDirOps == 2

----------------------------------------------------------------------------
(* Strings.                                                                *)

Empty == << >>

UpperChars == <<"A","B","C","D","E","F","G","H","I","J","K","L","M",
                "N","O","P","Q","R","S","T","U","V","W","X","Y","Z">>
LowerChars == <<"a","b","c","d","e","f","g","h","i","j","k","l","m",
                "n","o","p","q","r","s","t","u","v","w","x","y","z">>

Whitespace == {" ", "\t", "\n"}

UpperIndex == [c \in {UpperChars[i] : i \in DOMAIN UpperChars} |->
                  CHOOSE i \in DOMAIN UpperChars : UpperChars[i] = c]

LowerChar(c) == IF c \in DOMAIN UpperIndex THEN LowerChars[UpperIndex[c]] ELSE c

\* str.lower()
Lower(s) == [i \in 1..Len(s) |-> LowerChar(s[i])]

RECURSIVE LStrip(_)
LStrip(s) ==
    IF s # Empty /\ Head(s) \in Whitespace THEN LStrip(Tail(s)) ELSE s

RECURSIVE RStrip(_)
RStrip(s) ==
    IF s # Empty /\ s[Len(s)] \in Whitespace
    THEN RStrip(SubSeq(s, 1, Len(s) - 1))
    ELSE s

\* str.strip()
Strip(s) == RStrip(LStrip(s))

\* str.replace(old, new) for one-character old and new
ReplaceChar(s, old, new) == [i \in 1..Len(s) |-> IF s[i] = old THEN new ELSE s[i]]

\* Python truthiness of a string value
Truthy(v) == v # Empty

----------------------------------------------------------------------------
(* Dicts.                                                                  *)

EmptyDict == [k \in {} |-> Empty]

Put(d, k, v) == [x \in DOMAIN d \cup {k} |-> IF x = k THEN v ELSE d[x]]

\* a deletion that leaves the record in place
Remove_keeps(d, k) == d

Remove(d, k) == [x \in DOMAIN d \ {k} |-> d[x]]

\* dict.get(k): the value, or a falsy value when the key is absent
Get(d, k) == IF k \in DOMAIN d THEN d[k] ELSE Empty

----------------------------------------------------------------------------
(* Fact keys and values used by the program.                               *)

K_name          == <<"n","a","m","e">>
K_customer_name == <<"c","u","s","t","o","m","e","r","_","n","a","m","e">>
K_full_name     == <<"f","u","l","l","_","n","a","m","e">>
K_business_id   == <<"b","u","s","i","n","e","s","s","_","i","d">>
K_is_returning_customer ==
    <<"i","s","_","r","e","t","u","r","n","i","n","g","_",
      "c","u","s","t","o","m","e","r">>
K_phone         == <<"p","h","o","n","e">>
K_party_size    == <<"p","a","r","t","y","_","s","i","z","e">>

PyTrue == <<"T","r","u","e">>

----------------------------------------------------------------------------
(* CustomerDatabase (customer_db.py).                                      *)

\* a normalization that forgets to fold the case
NormalizeName_keepcase(name) == Strip(name)

\* normalize_name: name.lower().strip()
NormalizeName(name) == Strip(Lower(name))

\* a key that leaves the business id out
DbKey_unscoped(name, business_id) == NormalizeName(name)

\* f"{business_id}:{self.normalize_name(name)}"
DbKey(name, business_id) == business_id \o <<":">> \o NormalizeName(name)

\* a merge loop without the "if v" test: empty values overwrite
MergeInfo_destructive(entry, info) ==
    [k \in DOMAIN entry \cup DOMAIN info |->
        IF k \in DOMAIN info THEN info[k] ELSE entry[k]]

\* the loop of save_customer: for k, v in info.items(): if v: entry[k] = v
MergeInfo(entry, info) ==
    LET new == {k \in DOMAIN info : Truthy(info[k])}
    IN  [k \in DOMAIN entry \cup new |-> IF k \in new THEN info[k] ELSE entry[k]]

\* save_customer(name, business_id, info), as a function of the directory
SaveCustomer(db, name, business_id, info) ==
    IF ~Truthy(name) THEN db
    ELSE LET key    == DbKey(name, business_id)
             old    == IF key \in DOMAIN db THEN db[key] ELSE EmptyDict
             merged == MergeInfo(old, info)
             entry  == Put(Put(merged, K_name, name), K_business_id, business_id)
         IN  Put(db, key, entry)

NotFound == [found |-> FALSE]

\* find_customer(name, business_id): None, or a copy of the entry
FindCustomer(db, name, business_id) ==
    IF ~Truthy(name) THEN NotFound
    ELSE LET key == DbKey(name, business_id)
         IN  IF key \in DOMAIN db
             THEN [found |-> TRUE, entry |-> db[key]]
             ELSE NotFound

----------------------------------------------------------------------------
(* SmartMemory (memory.py).                                                *)

NewSession(business_id) ==
    [business_id |-> business_id, customer_details |-> EmptyDict, messages |-> << >>]

\* get_session: create the record on first use, else leave it
GetSessionMap(ss, sid, business_id) ==
    IF sid \in DOMAIN ss THEN ss ELSE Put(ss, sid, NewSession(business_id))

\* values update_customer_details refuses (after str(value).lower())
RejectedWords ==
    { <<"n","o","n","e">>, <<"n","u","l","l">>, <<"n","/","a">>,
      <<"u","n","k","n","o","w","n">> }

\* value and str(value).strip() and str(value).lower() not in [...]
Storable(value) ==
    /\ Truthy(value)
    /\ Truthy(Strip(value))
    /\ Lower(value) \notin RejectedWords

\* key.lower().replace(" ", "_").replace("-", "_")
NormalizeKey(key) == ReplaceChar(ReplaceChar(Lower(key), " ", "_"), "-", "_")

\* the loop of update_customer_details over details.items(), in dict order;
\* details is the sequence of <<key, value>> items
RECURSIVE MergeDetails(_, _)
MergeDetails(current, details) ==
    IF details = << >> THEN current
    ELSE LET key   == Head(details)[1]
             value == Head(details)[2]
             next  == IF Storable(value)
                      THEN Put(current, NormalizeKey(key), value)
                      ELSE current
         IN  MergeDetails(next, Tail(details))

\* details.get("name") or details.get("customer_name") or details.get("full_name")
NameOf(details) ==
    IF Truthy(Get(details, K_name)) THEN details[K_name]
    ELSE IF Truthy(Get(details, K_customer_name)) THEN details[K_customer_name]
    ELSE Get(details, K_full_name)

\* save_data of _save_to_db
SaveData(details) ==
    [k \in {x \in DOMAIN details :
               ~(x # Empty /\ Head(x) = "_") /\ x # K_is_returning_customer}
       |-> details[k]]

\* a write-back test that is content with the name alone
SaveToDbSaves_namealone(details) ==
    /\ Truthy(NameOf(details))
    /\ Cardinality(DOMAIN SaveData(details)) > 0

\* whether _save_to_db reaches customer_db.save_customer
SaveToDbSaves(details) ==
    /\ Truthy(NameOf(details))
    /\ Cardinality(DOMAIN SaveData(details)) > 1

\* _save_to_db for an existing session, as a function of the directory
SaveToDb(db, session) ==
    LET details == session.customer_details
    IN  IF SaveToDbSaves(details)
        THEN SaveCustomer(db, NameOf(details), session.business_id, SaveData(details))
        ELSE db

\* a restore loop that lets the directory overwrite what the session holds
RestoreInto_overwrite(current, stored) ==
    LET new == {k \in DOMAIN stored : Truthy(stored[k])}
    IN  [k \in DOMAIN current \cup new |->
            IF k \in new THEN stored[k] ELSE current[k]]

\* the restore loop of lookup_customer: if value and key not in current
RestoreInto(current, stored) ==
    LET new == {k \in DOMAIN stored : Truthy(stored[k]) /\ k \notin DOMAIN current}
    IN  [k \in DOMAIN current \cup new |->
            IF k \in new THEN stored[k] ELSE current[k]]

\* lookup_customer for an existing session and a non-empty name: the
\* session's customer_details afterwards
LookupDetails(db, session, name) ==
    LET stored == FindCustomer(db, name, session.business_id)
    IN  IF stored.found
        THEN Put(RestoreInto(session.customer_details, stored.entry),
                 K_is_returning_customer, PyTrue)
        ELSE session.customer_details

----------------------------------------------------------------------------
(* Inputs the operations are called with.                                  *)

B_hotel      == <<"h","o","t","e","l">>
B_restaurant == <<"r","e","s","t">>
Businesses   == {B_hotel, B_restaurant}

N_Al      == <<"A","l">>
N_AL_pad  == <<" ","A","L"," ">>
N_Bo      == <<"B","o">>
N_blank   == <<" ">>
NameInputs == {N_Al, N_AL_pad, N_Bo, N_blank, Empty}

V_5    == <<"5">>
V_7    == <<"7">>
V_4    == <<"4">>
V_2    == <<"2">>
V_None == <<"N","o","n","e">>

\* info dicts handed to save_customer
F_none       == EmptyDict
F_phone5     == Put(EmptyDict, K_phone, V_5)
F_phone7_p2  == Put(Put(EmptyDict, K_phone, V_7), K_party_size, V_2)
F_nophone_p4 == Put(Put(EmptyDict, K_phone, Empty), K_party_size, V_4)
F_named      == Put(Put(EmptyDict, K_name, N_Bo), K_party_size, V_4)
InfoInputs   == {F_none, F_phone5, F_phone7_p2, F_nophone_p4, F_named}

\* save_data of the save_booking tool, whose booking details the agent
\* supplies unfiltered
F_phone_none == Put(EmptyDict, K_phone, V_None)

\* details dicts handed to update_customer_details, as item sequences
K_Phone_raw == <<"P","h","o","n","e">>
K_party_raw == <<"p","a","r","t","y"," ","s","i","z","e">>
D_name      == << <<K_name, N_Al>> >>
D_name_p4   == << <<K_name, N_AL_pad>>, <<K_party_raw, V_4>> >>
D_phone     == << <<K_Phone_raw, V_5>> >>
D_rejected  == << <<K_phone, N_blank>>, <<K_party_size, V_None>>, <<K_name, Empty>> >>
D_cust_p2   == << <<K_customer_name, N_Bo>>, <<K_party_size, V_2>> >>
DetailInputs == {D_name, D_name_p4, D_phone, D_rejected, D_cust_p2}

SessionIds == {"s1", "s2"}

----------------------------------------------------------------------------
(* Operations on the directory and on SmartMemory.                         *)

Op(op) ==
    /\ nOps' = nOps + 1
    /\ lastOp' = op

\* customer_db.save_customer(name, business_id, info)
DoSaveCustomer(name, business_id, info) ==
    /\ customers' = SaveCustomer(customers, name, business_id, info)
    /\ Op([op |-> "save_customer", name |-> name, business_id |-> business_id,
           info |-> info])
    /\ UNCHANGED <<sessions, conversations, thr>>

\* smart_memory.get_session(session_id, business_id)
DoGetSession(sid, business_id) ==
    /\ sessions' = GetSessionMap(sessions, sid, business_id)
    /\ Op([op |-> "get_session", sid |-> sid, business_id |-> business_id])
    /\ UNCHANGED <<customers, conversations, thr>>

\* smart_memory.update_customer_details(session_id, details); a call for an
\* unknown session id returns at once
\* the call before this one was the same call
SameCallAgain(sid, details) ==
    /\ lastOp.op = "update_customer_details"
    /\ lastOp.sid = sid
    /\ lastOp.details = details

\* an update that writes the directory before it merges
DoUpdateCustomerDetails_savefirst(sid, details) ==
    /\ sid \in DOMAIN sessions
    /\ LET merged  == MergeDetails(sessions[sid].customer_details, details)
           session == [sessions[sid] EXCEPT !.customer_details = merged]
       IN  /\ sessions' = [sessions EXCEPT ![sid] = session]
           /\ customers' = SaveToDb(customers, sessions[sid])
           /\ Op([op |-> "update_customer_details", sid |-> sid,
                  details |-> details, saved |-> SaveToDbSaves(merged),
                  again |-> SameCallAgain(sid, details)])
    /\ UNCHANGED <<conversations, thr>>

DoUpdateCustomerDetails(sid, details) ==
    /\ sid \in DOMAIN sessions
    /\ LET merged  == MergeDetails(sessions[sid].customer_details, details)
           session == [sessions[sid] EXCEPT !.customer_details = merged]
       IN  /\ sessions' = [sessions EXCEPT ![sid] = session]
           /\ customers' = SaveToDb(customers, session)
           /\ Op([op |-> "update_customer_details", sid |-> sid,
                  details |-> details, saved |-> SaveToDbSaves(merged),
                  again |-> SameCallAgain(sid, details)])
    /\ UNCHANGED <<conversations, thr>>

\* smart_memory.lookup_customer(session_id, name); a call for an unknown
\* session id or with an empty name returns False at once
DoLookupCustomer(sid, name) ==
    /\ sid \in DOMAIN sessions
    /\ Truthy(name)
    /\ sessions' = [sessions EXCEPT ![sid].customer_details =
                        LookupDetails(customers, sessions[sid], name)]
    /\ Op([op |-> "lookup_customer", sid |-> sid, name |-> name,
           before |-> sessions[sid].customer_details,
           found |-> FindCustomer(customers, name, sessions[sid].business_id).found])
    /\ UNCHANGED <<customers, conversations, thr>>

\* smart_memory.clear_session(session_id)
\* a clear_session that drops every session
DoClearSession_all(sid) ==
    /\ sid \in DOMAIN sessions
    /\ sessions' = EmptyDict
    /\ Op([op |-> "clear_session", sid |-> sid])
    /\ UNCHANGED <<customers, conversations, thr>>

DoClearSession(sid) ==
    /\ sid \in DOMAIN sessions
    /\ sessions' = Remove(sessions, sid)
    /\ Op([op |-> "clear_session", sid |-> sid])
    /\ UNCHANGED <<customers, conversations, thr>>

----------------------------------------------------------------------------
(* Specification of the directory and SmartMemory operations.              *)

NoOp == [op |-> "init"]

Init ==
    /\ customers = EmptyDict
    /\ sessions = EmptyDict
    /\ conversations = EmptyDict
    /\ thr = EmptyDict
    /\ lastOp = NoOp
    /\ nOps = 0

\* the directory as the other callers of save_customer leave it
SeedNames == {N_Al, N_Bo}
SeedInfos == {F_phone5, F_phone7_p2, F_phone_none}
LookupNames == {N_Al, N_AL_pad, N_Bo}

Next ==
    \/ /\ nOps < MaxOps
       /\ \E n \in SeedNames, b \in Businesses, f \in SeedInfos : DoSaveCustomer(n, b, f)
    \/ /\ nOps < MaxOps
       /\ \E s \in SessionIds, b \in Businesses : DoGetSession(s, b)
    \/ /\ nOps < MaxOps
       /\ \E s \in SessionIds, d \in DetailInputs : DoUpdateCustomerDetails(s, d)
    \/ /\ nOps < MaxOps
       /\ \E s \in SessionIds, n \in LookupNames : DoLookupCustomer(s, n)
    \/ /\ nOps < MaxOps
       /\ \E s \in SessionIds : DoClearSession(s)

Spec == Init /\ [][Next]_vars

----------------------------------------------------------------------------
(* Specification of the directory alone: save_customer with every input.   *)

NextDir ==
    /\ nOps < MaxDirOps
    /\ \E n \in NameInputs, b \in Businesses, f \in InfoInputs : DoSaveCustomer(n, b, f)

SpecDir == Init /\ [][NextDir]_vars

----------------------------------------------------------------------------
(* Properties.                                                             *)

\* The directory entry for (business id, normalized name), when there is one.
HasEntry(name, business_id) == DbKey(name, business_id) \in DOMAIN customers
EntryOf(name, business_id)  == customers[DbKey(name, business_id)]

\* C1: lookup_customer(session, name), when the directory holds an entry for
\* (the session's business id, normalized name): every key the session held
\* before keeps its value (session wins), and every key of the entry with a
\* non-empty value that was absent or empty in the session now holds the
\* directory's value.
C1_LookupMerge ==
    (lastOp.op = "lookup_customer"
        /\ HasEntry(lastOp.name, sessions[lastOp.sid].business_id)) =>
    LET before == lastOp.before
        after  == sessions[lastOp.sid].customer_details
        entry  == EntryOf(lastOp.name, sessions[lastOp.sid].business_id)
    IN  /\ \A k \in DOMAIN before : k \in DOMAIN after /\ after[k] = before[k]
        /\ \A k \in DOMAIN entry :
              (entry[k] # Empty /\ (k \notin DOMAIN before \/ before[k] = Empty))
                  => (k \in DOMAIN after /\ after[k] = entry[k])

\* C1 witness: a lookup found the entry, kept the session's party size
\* against a different one in the directory, and restored the phone.
C1_Witness ==
    /\ lastOp.op = "lookup_customer"
    /\ HasEntry(lastOp.name, sessions[lastOp.sid].business_id)
    /\ LET before == lastOp.before
           after  == sessions[lastOp.sid].customer_details
           entry  == EntryOf(lastOp.name, sessions[lastOp.sid].business_id)
       IN  /\ K_party_size \in DOMAIN before
           /\ K_party_size \in DOMAIN entry
           /\ entry[K_party_size] # before[K_party_size]
           /\ after[K_party_size] = before[K_party_size]
           /\ K_phone \notin DOMAIN before
           /\ K_phone \in DOMAIN entry
           /\ after[K_phone] = entry[K_phone]

\* A step of the directory or session operations that performed `op`.
Performed(op) == nOps' = nOps + 1 /\ lastOp'.op = op

\* Two names that are equal up to letter case and surrounding whitespace.
SameName(a, b) == Strip(Lower(a)) = Strip(Lower(b))

\* C2: save_customer(name, business_id, info) with a non-empty name merges
\* into the entry for (business_id, normalized name): every non-empty fact of
\* info is stored with the incoming value, every stored fact that info lacks
\* or gives empty keeps its value, nothing else appears, and the stored name
\* and business id are the arguments of this call (these two keys are
\* governed by the arguments, not by info); with an empty name the directory
\* is unchanged.
C2_SaveMerges ==
    [][Performed("save_customer") =>
        LET name == lastOp'.name
            bid  == lastOp'.business_id
            info == lastOp'.info
            key  == DbKey(name, bid)
            old  == IF key \in DOMAIN customers THEN customers[key] ELSE EmptyDict
            fixed == {K_name, K_business_id}
            given == {k \in DOMAIN info : info[k] # Empty}
        IN  IF name = Empty
            THEN customers' = customers
            ELSE /\ key \in DOMAIN customers'
                 /\ LET new == customers'[key]
                    IN  /\ DOMAIN new = DOMAIN old \cup given \cup fixed
                        /\ \A k \in given \ fixed : new[k] = info[k]
                        /\ \A k \in (DOMAIN old \ given) \ fixed : new[k] = old[k]
                        /\ new[K_name] = name
                        /\ new[K_business_id] = bid
    ]_vars

\* C2 witness: a save with an empty phone and party size 4 onto an entry
\* that held phone 7 and party size 2: the phone is kept, the party size
\* overwritten.
C2_Witness ==
    /\ lastOp.op = "save_customer"
    /\ lastOp.info = F_nophone_p4
    /\ HasEntry(lastOp.name, lastOp.business_id)
    /\ LET entry == EntryOf(lastOp.name, lastOp.business_id)
       IN  /\ K_phone \in DOMAIN entry
           /\ entry[K_phone] = V_7
           /\ entry[K_party_size] = V_4

\* C7: entries are identified by (business id, normalized name) and are
\* independent: a save under one pair leaves what find returns for every
\* different pair as it was (not-found stays not-found).
C7_EntriesIndependent ==
    [][Performed("save_customer") =>
        \A n \in NameInputs, b \in Businesses :
            (b # lastOp'.business_id \/ ~SameName(n, lastOp'.name))
                => FindCustomer(customers', n, b) = FindCustomer(customers, n, b)
    ]_vars

\* C7 witness: after a save under one business, the same name is found under
\* that business and not found under the other, and another entry differs.
C7_Witness ==
    /\ lastOp.op = "save_customer"
    /\ lastOp.name # Empty
    /\ FindCustomer(customers, lastOp.name, lastOp.business_id).found
    /\ \E b \in Businesses \ {lastOp.business_id} :
          ~FindCustomer(customers, lastOp.name, b).found
    /\ Cardinality(DOMAIN customers) = 2

\* What C8 promises of find(n2, b) after save(n, b, info).
RoundTrips(n2, n, b, info) ==
    LET r == FindCustomer(customers, n2, b)
    IN  /\ r.found
        /\ \A k \in DOMAIN info \ {K_name, K_business_id} :
              info[k] # Empty => (k \in DOMAIN r.entry /\ r.entry[k] = info[k])
        /\ K_name \in DOMAIN r.entry
        /\ r.entry[K_name] = n

\* C8 as stated: after save(n, b, info) with a non-empty n, find(n2, b) for
\* every n2 equal to n up to letter case and surrounding whitespace returns
\* the non-empty facts of info and the name n in its original case.
C8_Original ==
    (lastOp.op = "save_customer" /\ lastOp.name # Empty) =>
        \A n2 \in NameInputs :
            SameName(n2, lastOp.name)
                => RoundTrips(n2, lastOp.name, lastOp.business_id, lastOp.info)

\* C8 amended: the same for every non-empty n2.
C8_RoundTrip ==
    (lastOp.op = "save_customer" /\ lastOp.name # Empty) =>
        \A n2 \in NameInputs \ {Empty} :
            SameName(n2, lastOp.name)
                => RoundTrips(n2, lastOp.name, lastOp.business_id, lastOp.info)

\* C8 witness: saved as "Al" with a phone, found as " AL ".
C8_Witness ==
    /\ lastOp.op = "save_customer"
    /\ lastOp.name = N_Al
    /\ lastOp.info = F_phone5
    /\ RoundTrips(N_AL_pad, N_Al, lastOp.business_id, F_phone5)

\* The key under which a session holds its name fact, and the facts of a
\* session that are not internal bookkeeping.
NameKeys == <<K_name, K_customer_name, K_full_name>>
HoldsName(d) == \E i \in DOMAIN NameKeys : Truthy(Get(d, NameKeys[i]))
NameKeyOf(d) ==
    NameKeys[CHOOSE i \in DOMAIN NameKeys :
                /\ Truthy(Get(d, NameKeys[i]))
                /\ \A j \in 1..(i-1) : ~Truthy(Get(d, NameKeys[j]))]
Internal(k) == (k # Empty /\ Head(k) = "_") \/ k = K_is_returning_customer
Persistable(d) == {k \in DOMAIN d : ~Internal(k)}

\* C4: update_customer_details writes the session's facts back to the
\* directory exactly when, after the merge, the session holds a name fact
\* and at least one other fact that is not internal bookkeeping; a name
\* alone, or facts without a name, leave the directory as it was.  When it
\* writes, the entry of (business id, name) holds every persistable fact of
\* the session.
C4_WriteBack ==
    [][Performed("update_customer_details") =>
        LET sid == lastOp'.sid
            d   == sessions'[sid].customer_details
            b   == sessions'[sid].business_id
            writes == /\ HoldsName(d)
                      /\ \E k \in Persistable(d) : k # NameKeyOf(d)
        IN  /\ lastOp'.saved = writes
            /\ ~writes => customers' = customers
            /\ writes =>
                  /\ DbKey(d[NameKeyOf(d)], b) \in DOMAIN customers'
                  /\ LET entry == customers'[DbKey(d[NameKeyOf(d)], b)]
                     IN  /\ entry[K_name] = d[NameKeyOf(d)]
                         /\ \A k \in Persistable(d) \ {K_name, K_business_id} :
                               k \in DOMAIN entry /\ entry[k] = d[k]
    ]_vars

\* C4 witness: an update left a session with a name and a party size and the
\* directory has the entry with that party size, where there was none for
\* the name alone.
C4_Witness ==
    /\ lastOp.op = "update_customer_details"
    /\ lastOp.saved
    /\ lastOp.details = D_cust_p2
    /\ LET s == sessions[lastOp.sid]
       IN  /\ K_name \notin DOMAIN s.customer_details
           /\ HasEntry(N_Bo, s.business_id)
           /\ EntryOf(N_Bo, s.business_id)[K_party_size] = V_2
           /\ EntryOf(N_Bo, s.business_id)[K_name] = N_Bo

----------------------------------------------------------------------------
(* Concurrent calls of save_customer.  The server handles requests on      *)
(* threads that share the one CustomerDatabase; save_customer takes no     *)
(* lock, so its statements interleave.  thr maps a thread to the call it   *)
(* runs: its arguments, the local variable key, the position in            *)
(* info.items() and the line it is about to execute.                       *)

Threads == {"t1", "t2"}

\* info dicts of the concurrent calls, as item sequences in dict order
I_phone5    == << <<K_phone, V_5>> >>
I_party4    == << <<K_party_size, V_4>> >>
I_phone7_p2 == << <<K_phone, V_7>>, <<K_party_size, V_2>> >>
ConcInfos   == {I_phone5, I_party4, I_phone7_p2}
ConcNames   == {N_Al, N_AL_pad, Empty}

\* the dict whose items() is the sequence
RECURSIVE ItemsToDict(_)
ItemsToDict(items) ==
    IF items = << >> THEN EmptyDict
    ELSE Put(ItemsToDict(SubSeq(items, 1, Len(items) - 1)),
             items[Len(items)][1], items[Len(items)][2])

Unchanged_seq == UNCHANGED <<sessions, conversations, lastOp, nOps>>

\* a request thread enters save_customer(name, business_id, info)
ThrCall(t, name, business_id, items) ==
    /\ t \notin DOMAIN thr
    /\ thr' = Put(thr, t, [pc |-> "l37", name |-> name, business_id |-> business_id,
                           items |-> items, key |-> Empty, i |-> 1])
    /\ UNCHANGED customers
    /\ Unchanged_seq

\* lines 37-40: if not name: return; key = f"{business_id}:{normalize_name(name)}"
ThrTestName(t) ==
    /\ t \in DOMAIN thr /\ thr[t].pc = "l37"
    /\ thr' = [thr EXCEPT ![t].pc = IF Truthy(thr[t].name) THEN "l41" ELSE "done",
                          ![t].key = IF Truthy(thr[t].name)
                                     THEN DbKey(thr[t].name, thr[t].business_id)
                                     ELSE Empty]
    /\ UNCHANGED customers
    /\ Unchanged_seq

\* line 41: if key not in self.customers
ThrTestKey(t) ==
    /\ t \in DOMAIN thr /\ thr[t].pc = "l41"
    /\ thr' = [thr EXCEPT ![t].pc = IF thr[t].key \notin DOMAIN customers
                                     THEN "l42" ELSE "l44"]
    /\ UNCHANGED customers
    /\ Unchanged_seq

\* line 42: self.customers[key] = {}
ThrCreate(t) ==
    /\ t \in DOMAIN thr /\ thr[t].pc = "l42"
    /\ customers' = Put(customers, thr[t].key, EmptyDict)
    /\ thr' = [thr EXCEPT ![t].pc = "l44"]
    /\ Unchanged_seq

\* lines 44-47: one pass of the loop: if value: self.customers[key][k] = value
ThrLoop(t) ==
    /\ t \in DOMAIN thr /\ thr[t].pc = "l44"
    /\ IF thr[t].i > Len(thr[t].items)
       THEN /\ thr' = [thr EXCEPT ![t].pc = "l49"]
            /\ UNCHANGED customers
       ELSE LET k == thr[t].items[thr[t].i][1]
                v == thr[t].items[thr[t].i][2]
            IN  /\ customers' = IF Truthy(v)
                                THEN [customers EXCEPT ![thr[t].key] = Put(@, k, v)]
                                ELSE customers
                /\ thr' = [thr EXCEPT ![t].i = @ + 1]
    /\ Unchanged_seq

\* line 49: self.customers[key]["name"] = name
ThrSetName(t) ==
    /\ t \in DOMAIN thr /\ thr[t].pc = "l49"
    /\ customers' = [customers EXCEPT ![thr[t].key] = Put(@, K_name, thr[t].name)]
    /\ thr' = [thr EXCEPT ![t].pc = "l50"]
    /\ Unchanged_seq

\* line 50: self.customers[key]["business_id"] = business_id; return
ThrSetBusiness(t) ==
    /\ t \in DOMAIN thr /\ thr[t].pc = "l50"
    /\ customers' = [customers EXCEPT ![thr[t].key] =
                         Put(@, K_business_id, thr[t].business_id)]
    /\ thr' = [thr EXCEPT ![t].pc = "done"]
    /\ Unchanged_seq

NextConc ==
    \/ \E t \in Threads, n \in ConcNames, b \in Businesses, f \in ConcInfos :
          ThrCall(t, n, b, f)
    \/ \E t \in Threads : ThrTestName(t)
    \/ \E t \in Threads : ThrTestKey(t)
    \/ \E t \in Threads : ThrCreate(t)
    \/ \E t \in Threads : ThrLoop(t)
    \/ \E t \in Threads : ThrSetName(t)
    \/ \E t \in Threads : ThrSetBusiness(t)

SpecConc == Init /\ [][NextConc]_vars

\* The directory after the call of thread t ran alone on directory db.
AfterCall(db, t) ==
    SaveCustomer(db, thr[t].name, thr[t].business_id, ItemsToDict(thr[t].items))

\* C3: when two concurrent save_customer calls have both returned, the
\* directory is what running them one after the other, in one of the two
\* orders, leaves: no field written by one call is lost.
C3_Serializable ==
    (DOMAIN thr = Threads /\ \A t \in Threads : thr[t].pc = "done") =>
        \/ customers = AfterCall(AfterCall(EmptyDict, "t1"), "t2")
        \/ customers = AfterCall(AfterCall(EmptyDict, "t2"), "t1")

----------------------------------------------------------------------------
(* ConversationManager (conversation.py).  A conversation record holds the *)
(* business id, the message list and customer_info; the list kept under    *)
(* customer_info["recent_messages"] is the field recent_messages.          *)

K_reservation_date == <<"r","e","s","e","r","v","a","t","i","o","n","_","d","a","t","e">>
K_reservation_time == <<"r","e","s","e","r","v","a","t","i","o","n","_","t","i","m","e">>
K_seating_preference == <<"s","e","a","t","i","n","g","_","p","r","e","f","e","r","e","n","c","e">>
K_email == <<"e","m","a","i","l">>
K_membership_type == <<"m","e","m","b","e","r","s","h","i","p","_","t","y","p","e">>
K_membership_start_date == <<"m","e","m","b","e","r","s","h","i","p","_","s","t","a","r","t","_","d","a","t","e">>
K_service_type == <<"s","e","r","v","i","c","e","_","t","y","p","e">>
K_date_mentioned == <<"d","a","t","e","_","m","e","n","t","i","o","n","e","d">>
K_has_existing_service == <<"h","a","s","_","e","x","i","s","t","i","n","g","_","s","e","r","v","i","c","e">>
K_wants_to_book == <<"w","a","n","t","s","_","t","o","_","b","o","o","k">>
K_has_reservation == <<"h","a","s","_","r","e","s","e","r","v","a","t","i","o","n">>
K_wants_membership_lookup == <<"w","a","n","t","s","_","m","e","m","b","e","r","s","h","i","p","_","l","o","o","k","u","p">>
K_claims_existing_reservation == <<"c","l","a","i","m","s","_","e","x","i","s","t","i","n","g","_","r","e","s","e","r","v","a","t","i","o","n">>
K_found_in_database == <<"f","o","u","n","d","_","i","n","_","d","a","t","a","b","a","s","e">>
K_recent_messages == <<"r","e","c","e","n","t","_","m","e","s","s","a","g","e","s">>

\* meaningful_fields of _save_customer_to_db
MeaningfulFields ==
    {K_reservation_date, K_reservation_time, K_party_size, K_seating_preference,
     K_phone, K_email, K_membership_type, K_membership_start_date, K_service_type,
     K_date_mentioned, K_has_existing_service, K_wants_to_book, K_has_reservation}

\* the internal tracking fields _save_customer_to_db leaves out of save_info
TrackingFields ==
    {K_recent_messages, K_wants_membership_lookup, K_claims_existing_reservation,
     K_found_in_database}

RecentWindow == 5

\* seq[-n:]
LastN(seq, n) ==
    IF Len(seq) <= n THEN seq ELSE SubSeq(seq, Len(seq) - n + 1, Len(seq))

NewConversation(business_id) ==
    [business_id |-> business_id, messages |-> << >>, customer_info |-> EmptyDict,
     recent_messages |-> << >>]

\* a get_or_create that binds an existing record to the business id given
GetOrCreateMap_rebind(cs, cid, business_id) ==
    IF cid \in DOMAIN cs
    THEN [cs EXCEPT ![cid].business_id = business_id]
    ELSE Put(cs, cid, NewConversation(business_id))

\* get_or_create: create the record on first use, else leave it
GetOrCreateMap(cs, cid, business_id) ==
    IF cid \in DOMAIN cs THEN cs ELSE Put(cs, cid, NewConversation(business_id))

\* _extract_customer_info: every rule that matches the message assigns its
\* key; facts is what the rules yield for the message
ExtractCustomerInfo(info, facts) ==
    [k \in DOMAIN info \cup DOMAIN facts |->
        IF k \in DOMAIN facts THEN facts[k] ELSE info[k]]

\* _lookup_customer_in_db: customer_info afterwards
ConvLookup(db, business_id, info) ==
    LET name   == Get(info, K_name)
        stored == FindCustomer(db, name, business_id)
    IN  IF ~Truthy(name) THEN info
        ELSE IF ~(stored.found /\ stored.entry # EmptyDict) THEN info
        ELSE LET new == {k \in DOMAIN stored.entry :
                            /\ Truthy(stored.entry[k])
                            /\ (k \notin DOMAIN info \/ ~Truthy(info[k]))}
                 merged == [k \in DOMAIN info \cup new |->
                               IF k \in new THEN stored.entry[k] ELSE info[k]]
             IN  Put(merged, K_found_in_database, PyTrue)

\* a write-back test that is content with the name alone
ConvSaves_namealone(info) == Truthy(Get(info, K_name))

\* whether _save_customer_to_db reaches customer_db.save_customer
ConvSaves(info) ==
    /\ Truthy(Get(info, K_name))
    /\ \E f \in MeaningfulFields : Truthy(Get(info, f))

\* save_info of _save_customer_to_db
ConvSaveInfo(info) == [k \in DOMAIN info \ TrackingFields |-> info[k]]

\* _save_customer_to_db, as a function of the directory
ConvSaveToDb(db, business_id, info) ==
    IF ConvSaves(info)
    THEN SaveCustomer(db, info[K_name], business_id, ConvSaveInfo(info))
    ELSE db

\* _extract_from_confirmation: a reply without a confirmation keyword
\* changes nothing; otherwise has_reservation is set and the date, time and
\* party size the reply states are taken when the key is not yet present
\* a confirmation extractor that takes the values of the reply also for
\* keys the session holds
ExtractFromConfirmation_overwrite(info, reply) ==
    IF ~reply.confirms THEN info
    ELSE LET i1 == Put(info, K_has_reservation, PyTrue)
             i2 == IF reply.date # Empty
                   THEN Put(i1, K_reservation_date, reply.date) ELSE i1
             i3 == IF reply.time # Empty
                   THEN Put(i2, K_reservation_time, reply.time) ELSE i2
         IN  IF reply.party # Empty
             THEN Put(i3, K_party_size, reply.party) ELSE i3

ExtractFromConfirmation(info, reply) ==
    IF ~reply.confirms THEN info
    ELSE LET i1 == Put(info, K_has_reservation, PyTrue)
             i2 == IF K_reservation_date \notin DOMAIN i1 /\ reply.date # Empty
                   THEN Put(i1, K_reservation_date, reply.date) ELSE i1
             i3 == IF K_reservation_time \notin DOMAIN i2 /\ reply.time # Empty
                   THEN Put(i2, K_reservation_time, reply.time) ELSE i2
         IN  IF K_party_size \notin DOMAIN i3 /\ reply.party # Empty
             THEN Put(i3, K_party_size, reply.party) ELSE i3

\* add_message with role "user": the conversation record afterwards, given
\* the directory the lookup reads
AfterUserMessage(db, conv, msg) ==
    LET extracted == ExtractCustomerInfo(conv.customer_info, msg.facts)
    IN  [conv EXCEPT
            !.messages = Append(@, [role |-> "user", content |-> msg.text]),
            !.recent_messages = LastN(Append(@, msg.text), RecentWindow),
            !.customer_info = ConvLookup(db, conv.business_id, extracted)]

\* add_message with role "assistant": the conversation record afterwards
AfterAssistantMessage(conv, reply) ==
    [conv EXCEPT
        !.messages = Append(@, [role |-> "assistant", content |-> reply.text]),
        !.customer_info = ExtractFromConfirmation(@, reply)]

----------------------------------------------------------------------------
(* Turns of a conversation.  An utterance is its text and what the rules   *)
(* of _extract_customer_info yield for that text; a reply is its text and  *)
(* what the rules of _extract_from_confirmation find in it.                *)

N_John       == <<"J","o","h","n"," ","S","m","i","t","h">>
N_JOHN_upper == <<"J","O","H","N"," ","S","M","I","T","H">>
V_tomorrow   == <<"t","o","m","o","r","r","o","w">>
V_7pm        == <<"7","p","m">>

U_book ==
    [text  |-> "I'd like to book a table for 4 tomorrow",
     facts |-> Put(Put(Put(EmptyDict, K_party_size, V_4),
                       K_reservation_date, V_tomorrow), K_wants_to_book, PyTrue)]
U_name ==
    [text |-> "My name is John Smith", facts |-> Put(EmptyDict, K_name, N_John)]
U_NAME ==
    [text |-> "JOHN SMITH", facts |-> Put(EmptyDict, K_name, N_JOHN_upper)]
U_check ==
    [text  |-> "check my reservation",
     facts |-> Put(EmptyDict, K_claims_existing_reservation, PyTrue)]
Utterances == {U_book, U_name, U_NAME, U_check}

R_help ==
    [text |-> "How can I help you?", confirms |-> FALSE,
     date |-> Empty, time |-> Empty, party |-> Empty]
R_booked ==
    [text |-> "Your table is booked for 2 people tomorrow at 7pm", confirms |-> TRUE,
     date |-> V_tomorrow, time |-> V_7pm, party |-> V_2]
Replies == {R_help, R_booked}

ConvIds == {"c1", "c2"}

\* conversation_manager.get_or_create(session_id, business_id)
DoGetOrCreate(cid, business_id) ==
    /\ conversations' = GetOrCreateMap(conversations, cid, business_id)
    /\ Op([op |-> "get_or_create", cid |-> cid, business_id |-> business_id])
    /\ UNCHANGED <<customers, sessions, thr>>

\* conversation_manager.add_message(session_id, "user", content): append,
\* extract, look the customer up, write back
DoAddUserMessage(cid, msg) ==
    /\ cid \in DOMAIN conversations
    /\ LET conv == AfterUserMessage(customers, conversations[cid], msg)
       IN  /\ conversations' = [conversations EXCEPT ![cid] = conv]
           /\ customers' = ConvSaveToDb(customers, conv.business_id, conv.customer_info)
    /\ Op([op |-> "add_message", cid |-> cid, role |-> "user", text |-> msg.text,
           before |-> conversations[cid]])
    /\ UNCHANGED <<sessions, thr>>

\* conversation_manager.add_message(session_id, "assistant", content):
\* append, read the confirmation, write back
DoAddAssistantMessage(cid, reply) ==
    /\ cid \in DOMAIN conversations
    /\ LET conv == AfterAssistantMessage(conversations[cid], reply)
       IN  /\ conversations' = [conversations EXCEPT ![cid] = conv]
           /\ customers' = ConvSaveToDb(customers, conv.business_id, conv.customer_info)
    /\ Op([op |-> "add_message", cid |-> cid, role |-> "assistant",
           text |-> reply.text, before |-> conversations[cid]])
    /\ UNCHANGED <<sessions, thr>>

\* conversation_manager.clear(session_id)
DoClear(cid) ==
    /\ cid \in DOMAIN conversations
    /\ conversations' = Remove(conversations, cid)
    /\ Op([op |-> "clear", cid |-> cid])
    /\ UNCHANGED <<customers, sessions, thr>>

MaxTurnOps == 5

NextTurn ==
    \/ /\ nOps < MaxTurnOps
       /\ \E c \in ConvIds, b \in Businesses : DoGetOrCreate(c, b)
    \/ /\ nOps < MaxTurnOps
       /\ \E c \in ConvIds, u \in Utterances : DoAddUserMessage(c, u)
    \/ /\ nOps < MaxTurnOps
       /\ \E c \in ConvIds, r \in Replies : DoAddAssistantMessage(c, r)
    \/ /\ nOps < MaxTurnOps
       /\ \E c \in ConvIds : DoClear(c)

SpecTurn == Init /\ [][NextTurn]_vars

\* The facts of a conversation that go to the directory, other than the name.
OtherFacts(info) == {k \in DOMAIN info \ (TrackingFields \cup {K_name}) : Truthy(info[k])}
KnowsName(info) == Truthy(Get(info, K_name))

\* Whether the entry of (business id, name) holds the name and every fact of
\* info that goes to the directory.
EntryHolds(db, business_id, info) ==
    /\ DbKey(info[K_name], business_id) \in DOMAIN db
    /\ LET entry == db[DbKey(info[K_name], business_id)]
       IN  /\ entry[K_name] = info[K_name]
           /\ \A k \in OtherFacts(info) \ {K_business_id} :
                 k \in DOMAIN entry /\ entry[k] = info[k]

\* C5 as stated: no turn writes to the directory while the conversation
\* knows no name, and the turn in which the name becomes known leaves an
\* entry for (business id, name) with the name and all facts held so far.
C5_Original ==
    [][Performed("add_message") =>
        LET before == lastOp'.before.customer_info
            conv   == conversations'[lastOp'.cid]
        IN  /\ ~KnowsName(conv.customer_info) => customers' = customers
            /\ (~KnowsName(before) /\ KnowsName(conv.customer_info))
                  => EntryHolds(customers', conv.business_id, conv.customer_info)
    ]_vars

\* C5: no turn writes to the directory while the conversation knows no name.
\* In the turn in which the name becomes known, the directory gets the entry
\* for (business id, name), holding the name and all facts held so far, when
\* the conversation then holds at least one meaningful fact besides the
\* name; a turn that yields the name and nothing else writes nothing.
C5_EntryWhenNamed ==
    [][Performed("add_message") =>
        LET before == lastOp'.before.customer_info
            conv   == conversations'[lastOp'.cid]
            info   == conv.customer_info
        IN  /\ ~KnowsName(info) => customers' = customers
            /\ (~KnowsName(before) /\ KnowsName(info)) =>
                  IF \E f \in MeaningfulFields : Truthy(Get(info, f))
                  THEN EntryHolds(customers', conv.business_id, info)
                  ELSE customers' = customers
    ]_vars

\* C5 witness: the booking was asked for first; the turn that gave the name
\* created the entry with the party size and date of the earlier turn.
C5_Witness ==
    /\ lastOp.op = "add_message"
    /\ lastOp.text = U_name.text
    /\ ~KnowsName(lastOp.before.customer_info)
    /\ K_party_size \in DOMAIN lastOp.before.customer_info
    /\ K_found_in_database \notin DOMAIN conversations[lastOp.cid].customer_info
    /\ HasEntry(N_John, conversations[lastOp.cid].business_id)
    /\ EntryOf(N_John, conversations[lastOp.cid].business_id)[K_party_size] = V_4
    /\ EntryOf(N_John, conversations[lastOp.cid].business_id)[K_reservation_date]
          = V_tomorrow

----------------------------------------------------------------------------
(* The message histories.  SmartMemory.add_message and                     *)
(* ConversationManager.add_message append the turns of a session; the      *)
(* callers send a user message, then the agent's reply, and so on.  The    *)
(* n-th message appended to a history has the text "m<n>", on which no     *)
(* extraction rule matches.                                                *)

HistoryWindow == 20

MaxHistOps == 24

\* add_message of SmartMemory: append, then keep the last 20
\* an add_message that keeps an odd number of messages
AddMessage_odd(session, role, content) ==
    [session EXCEPT !.messages =
        LastN(Append(@, [role |-> role, content |-> content]), HistoryWindow - 1)]

AddMessage(session, role, content) ==
    [session EXCEPT !.messages =
        LastN(Append(@, [role |-> role, content |-> content]), HistoryWindow)]

\* smart_memory.add_message(session_id, role, content); a call for an
\* unknown session id does nothing
DoAddMessage(sid, role, content) ==
    /\ sid \in DOMAIN sessions
    /\ sessions' = [sessions EXCEPT ![sid] = AddMessage(@, role, content)]
    /\ Op([op |-> "smart_add_message", sid |-> sid, role |-> role, text |-> content])
    /\ UNCHANGED <<customers, conversations, thr>>

NumText(n) == "m" \o ToString(n)
NumOf(text) == CHOOSE n \in 1..(MaxHistOps + 1) : NumText(n) = text

\* the number of the message the caller sends next, and its role
NextNumber(messages) ==
    IF messages = << >> THEN 1 ELSE NumOf(messages[Len(messages)].content) + 1
RoleOf(n) == IF n % 2 = 1 THEN "user" ELSE "assistant"

U_numbered(n) == [text |-> NumText(n), facts |-> EmptyDict]
R_numbered(n) ==
    [text |-> NumText(n), confirms |-> FALSE,
     date |-> Empty, time |-> Empty, party |-> Empty]

NextHist ==
    \/ /\ nOps < MaxHistOps
       /\ DoGetSession("s1", B_hotel)
    \/ /\ nOps < MaxHistOps
       /\ DoGetOrCreate("c1", B_hotel)
    \/ /\ nOps < MaxHistOps
       /\ \E s \in DOMAIN sessions :
             LET n == NextNumber(sessions[s].messages)
             IN  DoAddMessage(s, RoleOf(n), NumText(n))
    \/ /\ nOps < MaxHistOps
       /\ \E c \in DOMAIN conversations :
             LET n == NextNumber(conversations[c].messages)
             IN  RoleOf(n) = "user" /\ DoAddUserMessage(c, U_numbered(n))
    \/ /\ nOps < MaxHistOps
       /\ \E c \in DOMAIN conversations :
             LET n == NextNumber(conversations[c].messages)
             IN  RoleOf(n) = "assistant" /\ DoAddAssistantMessage(c, R_numbered(n))

SpecHist == Init /\ [][NextHist]_vars

\* A history that holds at most HistoryWindow messages, which are the most
\* recently appended ones in the order they were appended.
WithinWindow(messages) ==
    /\ Len(messages) <= HistoryWindow
    /\ \A i \in 1..Len(messages) :
          messages[i].content =
              NumText(NumOf(messages[Len(messages)].content) - Len(messages) + i)

\* C6: after any sequence of appended turns, the history of a session holds
\* at most 20 turns, the most recently appended ones in their order.
C6_HistoryBounded ==
    /\ \A s \in DOMAIN sessions : WithinWindow(sessions[s].messages)
    /\ \A c \in DOMAIN conversations : WithinWindow(conversations[c].messages)

\* The part of C6 that holds: the histories SmartMemory keeps.
SmartHistoryBounded ==
    \A s \in DOMAIN sessions : WithinWindow(sessions[s].messages)

\* A SmartMemory history that has dropped its oldest messages.
SmartHistoryTruncated ==
    \E s \in DOMAIN sessions :
        /\ Len(sessions[s].messages) = HistoryWindow
        /\ sessions[s].messages[1].content = NumText(3)

----------------------------------------------------------------------------
(* The LLM extractor (memory.py, extract_with_ai).  The engine's answer is *)
(* a text; it is modelled as the sequence of its lexical pieces: the fence *)
(* markers, whitespace, prose, and JSON values.  A JSON object carries its *)
(* items in order.                                                         *)

Tok(t, items) == [t |-> t, items |-> items]
T_fence_json == Tok("fence_json", << >>)
T_fence      == Tok("fence", << >>)
T_ws         == Tok(" ", << >>)
T_prose      == Tok("prose", << >>)
T_array      == Tok("array", << >>)
T_object(items) == Tok("object", items)

\* the parameters call_subconscious_api declares, and the keyword arguments
\* extract_with_ai calls it with
CallParams    == {"instructions", "engine", "use_tools", "tools"}
ExtractKwargs == {"instructions", "enable_tools"}

\* a call with a keyword the callee does not declare raises TypeError
RaisesTypeError(kwargs, params) == ~(kwargs \subseteq params)

\* answer.strip()
RECURSIVE StripText(_)
StripText(text) ==
    IF text = << >> THEN text
    ELSE IF Head(text) = T_ws THEN StripText(Tail(text))
    ELSE IF text[Len(text)] = T_ws THEN StripText(SubSeq(text, 1, Len(text) - 1))
    ELSE text

\* the positions of the pieces of text in which the separator occurs
Occurrences(text, seps) == {i \in DOMAIN text : text[i].t \in seps}

\* text.split(sep)[0] and text.split(sep)[1], when sep occurs in text
SplitFirst(text, seps) ==
    LET occ == Occurrences(text, seps)
    IN  IF occ = {} THEN text
        ELSE SubSeq(text, 1, (CHOOSE i \in occ : \A j \in occ : i <= j) - 1)
SplitSecond(text, seps) ==
    LET occ   == Occurrences(text, seps)
        first == CHOOSE i \in occ : \A j \in occ : i <= j
        rest  == SubSeq(text, first + 1, Len(text))
    IN  IF Occurrences(rest, seps) = {} THEN rest ELSE SplitFirst(rest, seps)

\* the clean-up of markdown fences; the plain fence marker (three backquotes)
\* also occurs inside the json fence marker
Unfence(answer) ==
    IF Occurrences(answer, {"fence_json"}) # {}
    THEN SplitFirst(SplitSecond(answer, {"fence_json"}), {"fence", "fence_json"})
    ELSE IF Occurrences(answer, {"fence", "fence_json"}) # {}
    THEN SplitFirst(SplitSecond(answer, {"fence"}), {"fence"})
    ELSE answer

\* json.loads(text.strip()): the one JSON value the text consists of
JsonLoads(text) ==
    LET body == StripText(text)
    IN  IF Len(body) = 1 /\ body[1].t \in {"object", "array"}
        THEN [ok |-> TRUE, value |-> body[1]]
        ELSE [ok |-> FALSE, value |-> T_prose]

\* the body of the try block after a call that returned result
ExtractFromResult(result) ==
    LET parsed == JsonLoads(Unfence(StripText(result.answer)))
    IN  IF result.success /\ parsed.ok /\ parsed.value.t = "object"
        THEN parsed.value.items
        ELSE << >>

\* an extractor that takes the first JSON object it sees anywhere in the
\* answer, whatever surrounds it
ExtractWithAi_lenient(result) ==
    LET occ == Occurrences(result.answer, {"object"})
    IN  IF occ = {} THEN << >>
        ELSE result.answer[CHOOSE i \in occ : \A j \in occ : i <= j].items

\* extract_with_ai(message, context): the items of the dict it returns, given
\* what the engine answers to a call that reaches it
ExtractWithAi(result) ==
    IF RaisesTypeError(ExtractKwargs, CallParams)
    THEN << >>
    ELSE ExtractFromResult(result)

----------------------------------------------------------------------------
(* process_message_parallel (memory.py).  The response generator is an     *)
(* argument of the function: it returns a text or raises.                  *)

\* str.title(): a letter after a non-letter in upper case, the others in
\* lower case
LowerIndex == [c \in {LowerChars[i] : i \in DOMAIN LowerChars} |->
                  CHOOSE i \in DOMAIN LowerChars : LowerChars[i] = c]
UpperChar(c) == IF c \in DOMAIN LowerIndex THEN UpperChars[LowerIndex[c]] ELSE c
IsLetter(c) == c \in DOMAIN LowerIndex \/ c \in DOMAIN UpperIndex
Title(s) ==
    [i \in 1..Len(s) |->
        IF i = 1 \/ ~IsLetter(s[i - 1]) THEN UpperChar(s[i]) ELSE LowerChar(s[i])]

\* display_key = key.replace("_", " ").title()
DisplayKey(key) == Title(ReplaceChar(key, "_", " "))

\* the empty context string
NoContext == [empty |-> TRUE, returning |-> FALSE, bullets |-> {}]

\* a context whose header never says returning customer
ContextForAi_unflagged(session) ==
    LET details == session.customer_details
    IN  IF details = EmptyDict THEN NoContext
        ELSE [empty |-> FALSE, returning |-> FALSE,
              bullets |-> {<<DisplayKey(k), details[k]>> : k \in Persistable(details)}]

\* get_context_for_ai: the header and one bullet per fact that is not internal
ContextForAi(session) ==
    LET details == session.customer_details
    IN  IF details = EmptyDict THEN NoContext
        ELSE [empty |-> FALSE,
              returning |-> Truthy(Get(details, K_is_returning_customer)),
              bullets |-> {<<DisplayKey(k), details[k]>> : k \in Persistable(details)}]

FallbackAnswer == "I'm sorry, I'm having trouble processing that. Could you try again?"

\* a turn that hands the exception text of the generator to the caller
GenerateResponse_leaky(gen) == IF gen.raises THEN gen.error ELSE gen.text

\* step 3: try: response = response_generator(...) except: the fallback
GenerateResponse(gen) == IF gen.raises THEN FallbackAnswer ELSE gen.text

\* extracted.get("name") or extracted.get("full_name") or
\* extracted.get("customer_name")
NameOfExtracted(d) ==
    IF Truthy(Get(d, K_name)) THEN d[K_name]
    ELSE IF Truthy(Get(d, K_full_name)) THEN d[K_full_name]
    ELSE Get(d, K_customer_name)

\* step 1 on the session: lookup before update, when something was extracted
AfterExtraction(db, session, extracted) ==
    LET name    == NameOfExtracted(ItemsToDict(extracted))
        looked  == IF /\ Truthy(name)
                      /\ ~Truthy(Get(session.customer_details, K_is_returning_customer))
                   THEN [session EXCEPT !.customer_details =
                            LookupDetails(db, session, name)]
                   ELSE session
    IN  IF extracted = << >> THEN session
        ELSE [looked EXCEPT !.customer_details = MergeDetails(@, extracted)]

\* inputs of a turn: the utterance, the engine's answer to the extraction
\* call, and the behaviour of the response generator
X_items == << <<K_name, N_Al>>, <<K_party_size, V_4>> >>
E_bare        == [success |-> TRUE,  answer |-> << T_object(X_items) >>]
E_fenced_json == [success |-> TRUE,
                  answer |-> << T_fence_json, T_ws, T_object(X_items), T_ws, T_fence >>]
E_fenced      == [success |-> TRUE,
                  answer |-> << T_prose, T_ws, T_fence, T_object(X_items), T_fence >>]
E_prose       == [success |-> TRUE,  answer |-> << T_prose, T_ws, T_prose >>]
E_array       == [success |-> TRUE,  answer |-> << T_array >>]
E_failed      == [success |-> FALSE, answer |-> << T_prose >>]
E_prose_obj   == [success |-> TRUE,
                  answer |-> << T_prose, T_ws, T_object(X_items) >>]
EngineResults ==
    {E_bare, E_fenced_json, E_fenced, E_prose, E_array, E_failed, E_prose_obj}

G_answers == [raises |-> FALSE, text |-> "Your table for 4 is booked.", error |-> ""]
G_apology == [raises |-> FALSE, error |-> "",
              text |-> "I apologize, but something went wrong. Please try again."]
G_raises  == [raises |-> TRUE, text |-> "", error |-> "ConnectionError"]
Generators == {G_answers, G_apology, G_raises}

TurnMessages == {"I'd like a table for 4", "My name is Al"}

\* process_message_parallel(session_id, business_id, message,
\*                          response_generator, smart_memory)
DoProcessMessageParallel(sid, business_id, message, result, gen) ==
    LET created   == GetSessionMap(sessions, sid, business_id)
        extracted == ExtractWithAi(result)
        session   == AfterExtraction(customers, created[sid], extracted)
        response  == GenerateResponse(gen)
    IN  /\ customers' = IF extracted = << >> THEN customers
                        ELSE SaveToDb(customers, session)
        /\ sessions' = [created EXCEPT ![sid] =
                           AddMessage(AddMessage(session, "user", message),
                                      "assistant", response)]
        /\ Op([op |-> "process_message_parallel", sid |-> sid, message |-> message,
               result |-> result, gen |-> gen, extracted |-> extracted,
               response |-> response, context |-> ContextForAi(session)])
        /\ UNCHANGED <<conversations, thr>>

MaxPmpOps == 3

\* facts that reach a session through update_customer_details between turns
PmpDetails == {D_name_p4, D_phone}

NextPmp ==
    \/ /\ nOps < MaxPmpOps
       /\ \E s \in SessionIds, m \in TurnMessages, e \in EngineResults,
             g \in Generators :
             DoProcessMessageParallel(s, B_hotel, m, e, g)
    \/ /\ nOps < MaxPmpOps
       /\ \E s \in SessionIds, d \in PmpDetails : DoUpdateCustomerDetails(s, d)

SpecPmp == Init /\ [][NextPmp]_vars

IsObjectAnswer(answer) ==
    \E items \in {X_items} :
        \/ StripText(answer) = << T_object(items) >>
        \/ \E i, j \in DOMAIN answer :
              /\ i < j
              /\ answer[i].t \in {"fence", "fence_json"}
              /\ answer[j].t = "fence"
              /\ StripText(SubSeq(answer, i + 1, j - 1)) = << T_object(items) >>
ObjectOf(answer) ==
    (CHOOSE i \in DOMAIN answer : answer[i].t = "object")

\* C10: when the engine answers the extraction call with a JSON object, bare
\* or wrapped in a fenced code block, extract_with_ai returns the mapping the
\* object denotes.
C10_ReturnsObject ==
    (lastOp.op = "process_message_parallel"
        /\ lastOp.result.success
        /\ IsObjectAnswer(lastOp.result.answer)) =>
    lastOp.extracted = lastOp.result.answer[ObjectOf(lastOp.result.answer)].items

\* The parsing of the answer alone, without the call that precedes it.
ParsesObject ==
    \A e \in EngineResults :
        (e.success /\ IsObjectAnswer(e.answer)) =>
            ExtractFromResult(e) = e.answer[ObjectOf(e.answer)].items

\* The engine's answer to the extraction call is a failure, is not parsable
\* JSON, or parses to something that is not an object.
UnusableResult(result) ==
    \/ ~result.success
    \/ LET body == StripText(Unfence(StripText(result.answer)))
       IN  ~(Len(body) = 1 /\ body[1].t = "object")

\* C11: when the extraction call fails, or its answer is not parsable JSON or
\* not an object, extract_with_ai returns the empty mapping and the turn
\* goes on: the session's facts and the directory are as they were before
\* the turn, and the turn is recorded in the history.
C11_FailSoft ==
    [][(Performed("process_message_parallel") /\ UnusableResult(lastOp'.result)) =>
        LET sid == lastOp'.sid
        IN  /\ lastOp'.extracted = << >>
            /\ customers' = customers
            /\ sessions'[sid].customer_details =
                  (IF sid \in DOMAIN sessions
                   THEN sessions[sid].customer_details ELSE EmptyDict)
            /\ sessions'[sid].messages # << >>
    ]_vars

\* C11 witness: a session that holds a name and a party size, with its
\* directory entry, went through a turn whose extraction answer was prose
\* followed by an object.
C11_Witness ==
    /\ lastOp.op = "process_message_parallel"
    /\ lastOp.result = E_prose_obj
    /\ lastOp.extracted = << >>
    /\ Get(sessions[lastOp.sid].customer_details, K_party_size) = V_4
    /\ HasEntry(N_Al, B_hotel)

\* A value update_customer_details is meant to refuse: empty, blank, or one
\* of the words none, null, unknown in any letter case.
Refused(v) ==
    \/ v = Empty
    \/ Strip(v) = Empty
    \/ Lower(v) \in { <<"n","o","n","e">>, <<"n","u","l","l">>,
                      <<"u","n","k","n","o","w","n">> }

\* C12: after any sequence of session operations no key of a session's
\* customer_details holds an empty or blank value or one of the words none,
\* null, unknown.
C12_NoRefusedValue ==
    \A s \in DOMAIN sessions :
        \A k \in DOMAIN sessions[s].customer_details :
            ~Refused(sessions[s].customer_details[k])

\* The part of C12 that holds: update_customer_details drops every incoming
\* key with such a value and keeps what the session stored for it.
UpdateDropsRefused ==
    [][Performed("update_customer_details") =>
        LET sid == lastOp'.sid
            d   == lastOp'.details
        IN  \A k \in DOMAIN sessions'[sid].customer_details :
                LET v == sessions'[sid].customer_details[k]
                IN  Refused(v) => (k \in DOMAIN sessions[sid].customer_details
                                    /\ sessions[sid].customer_details[k] = v)
    ]_vars

----------------------------------------------------------------------------
(* The two session stores side by side: creation, use and deletion of      *)
(* records of SmartMemory and of ConversationManager.                      *)

MaxSessOps == 4

SessDetails    == {D_name_p4, D_phone}
SessUtterances == {U_book, U_name}

NextSess ==
    \/ /\ nOps < MaxSessOps
       /\ \E s \in SessionIds, b \in Businesses : DoGetSession(s, b)
    \/ /\ nOps < MaxSessOps
       /\ \E s \in SessionIds, d \in SessDetails : DoUpdateCustomerDetails(s, d)
    \/ /\ nOps < MaxSessOps
       /\ \E s \in SessionIds : DoAddMessage(s, "user", "My name is Al")
    \/ /\ nOps < MaxSessOps
       /\ \E s \in SessionIds : DoClearSession(s)
    \/ /\ nOps < MaxSessOps
       /\ \E c \in ConvIds, b \in Businesses : DoGetOrCreate(c, b)
    \/ /\ nOps < MaxSessOps
       /\ \E c \in ConvIds, u \in SessUtterances : DoAddUserMessage(c, u)
    \/ /\ nOps < MaxSessOps
       /\ \E c \in ConvIds : DoClear(c)

SpecSess == Init /\ [][NextSess]_vars

\* C13: clear_session(id) and clear(id) delete the record of the id: the
\* store has no record for it afterwards, the directory and every other
\* record are unchanged, and the next get_session / get_or_create for the id
\* yields a record with empty history, empty facts and no returning flag.
C13_ResetDeletes ==
    [][/\ Performed("clear_session") =>
            /\ lastOp'.sid \notin DOMAIN sessions'
            /\ \A o \in DOMAIN sessions \ {lastOp'.sid} :
                  o \in DOMAIN sessions' /\ sessions'[o] = sessions[o]
            /\ customers' = customers /\ conversations' = conversations
       /\ Performed("clear") =>
            /\ lastOp'.cid \notin DOMAIN conversations'
            /\ \A o \in DOMAIN conversations \ {lastOp'.cid} :
                  o \in DOMAIN conversations' /\ conversations'[o] = conversations[o]
            /\ customers' = customers /\ sessions' = sessions
       /\ (lastOp.op = "clear_session" /\ Performed("get_session")
              /\ lastOp'.sid = lastOp.sid) =>
            /\ sessions'[lastOp.sid].messages = << >>
            /\ sessions'[lastOp.sid].customer_details = EmptyDict
       /\ (lastOp.op = "clear" /\ Performed("get_or_create")
              /\ lastOp'.cid = lastOp.cid) =>
            /\ conversations'[lastOp.cid].messages = << >>
            /\ conversations'[lastOp.cid].customer_info = EmptyDict
    ]_vars

\* C13 witness: a session that had written its customer to the directory was
\* cleared; the entry and the other session are still there.
C13_Witness ==
    /\ lastOp.op = "clear_session"
    /\ lastOp.sid \notin DOMAIN sessions
    /\ DOMAIN sessions # {}
    /\ \E b \in Businesses : HasEntry(N_Al, b)

\* C14: get_session and get_or_create create a record only on the first call
\* for an id, with the business id given, empty history and empty facts; a
\* later call for the id, also with another business id, changes nothing.
C14_GetOrCreateIdempotent ==
    [][/\ Performed("get_session") =>
            /\ customers' = customers
            /\ IF lastOp'.sid \in DOMAIN sessions
               THEN sessions' = sessions
               ELSE sessions' = Put(sessions, lastOp'.sid,
                        [business_id |-> lastOp'.business_id,
                         customer_details |-> EmptyDict, messages |-> << >>])
       /\ Performed("get_or_create") =>
            /\ customers' = customers
            /\ IF lastOp'.cid \in DOMAIN conversations
               THEN conversations' = conversations
               ELSE /\ DOMAIN conversations' = DOMAIN conversations \cup {lastOp'.cid}
                    /\ \A o \in DOMAIN conversations :
                          conversations'[o] = conversations[o]
                    /\ conversations'[lastOp'.cid].business_id = lastOp'.business_id
                    /\ conversations'[lastOp'.cid].messages = << >>
                    /\ conversations'[lastOp'.cid].customer_info = EmptyDict
    ]_vars

\* C14 witness: get_or_create was called with another business id for a
\* conversation that has a message and a fact; the record kept its own.
C14_Witness ==
    /\ lastOp.op = "get_or_create"
    /\ lastOp.cid \in DOMAIN conversations
    /\ conversations[lastOp.cid].business_id # lastOp.business_id
    /\ conversations[lastOp.cid].messages # << >>
    /\ conversations[lastOp.cid].customer_info # EmptyDict

----------------------------------------------------------------------------
(* The HTTP entry points of a turn (routes/chat.py): chat and chat_stream. *)
(* A request carries a JSON body or none.  The catalogue (models.py) and   *)
(* the manager methods process_message and create_session are not part of *)
(* the sources at hand; they are taken from the specification: the         *)
(* catalogue is the set of known business ids, create_session is           *)
(* get_or_create, and process_message is a turn of the conversation        *)
(* manager (user message, engine answer, assistant message).               *)

B_unknown == <<"z","o","o">>
Catalogue == Businesses

M_name     == <<"M","y"," ","n","a","m","e"," ","i","s"," ","J","o","h","n"," ","S","m","i","t","h">>
M_name_pad == << " " >> \o M_name \o << " " >>
RequestMessages == {Empty, N_blank, M_name_pad}

\* what the extraction rules yield for the text of a request
UtteranceOf(message) == IF message = M_name THEN U_name ELSE U_check

NoBody == [json |-> FALSE, message |-> Empty, business_id |-> Empty,
           session_id |-> "s1"]
Requests ==
    {NoBody} \cup
    [json : {TRUE}, message : RequestMessages,
     business_id : Catalogue \cup {B_unknown}, session_id : {"s1"}]

CreateSession(cs, sid, business_id) == GetOrCreateMap(cs, sid, business_id)

\* process_message: the conversation record after the turn
ProcessedConversation(db, cs, sid, business_id, msg, reply) ==
    LET created == GetOrCreateMap(cs, sid, business_id)
        asked   == AfterUserMessage(db, created[sid], msg)
        db1     == ConvSaveToDb(db, asked.business_id, asked.customer_info)
    IN  [conv |-> AfterAssistantMessage(asked, reply), db |-> db1]

\* the status the chat route answers with
ChatStatus(r) ==
    IF ~r.json THEN 400
    ELSE IF ~Truthy(Strip(r.message)) THEN 400
    ELSE IF r.business_id \notin Catalogue THEN 400
    ELSE 200

\* POST /api/chat
DoChat(r, reply) ==
    /\ IF ChatStatus(r) = 200
       THEN LET p == ProcessedConversation(customers, conversations, r.session_id,
                                           r.business_id,
                                           UtteranceOf(Strip(r.message)), reply)
            IN  /\ conversations' =
                      Put(conversations, r.session_id, p.conv)
                /\ customers' = ConvSaveToDb(p.db, p.conv.business_id,
                                             p.conv.customer_info)
       ELSE UNCHANGED <<conversations, customers>>
    /\ Op([op |-> "chat", request |-> r, status |-> ChatStatus(r),
           engine_called |-> (ChatStatus(r) = 200)])
    /\ UNCHANGED <<sessions, thr>>

\* the status the chat_stream route answers with: a missing body fails on
\* data.get, an unknown business id fails on BUSINESSES[business_id]
StreamStatus(r) ==
    IF ~r.json THEN 500
    ELSE IF ~Truthy(Strip(r.message)) THEN 400
    ELSE IF r.business_id \notin Catalogue THEN 500
    ELSE 200

\* whether chat_stream gets as far as creating the session records
StreamCreates(r) == r.json /\ Truthy(Strip(r.message))

\* what the streaming of a fragment does to the session record: nothing is
\* recorded by chat_stream or by stream_subconscious_response
AfterFragment_recorded(session, fragment) == AddMessage(session, "assistant", fragment)
AfterFragment(session, fragment) == session

MaxFragments == 2

\* POST /api/chat/stream; t is the thread that serves the response
DoChatStream(r, t) ==
    /\ t \notin DOMAIN thr
    /\ IF StreamCreates(r)
       THEN /\ conversations' = CreateSession(conversations, r.session_id, r.business_id)
            /\ sessions' = GetSessionMap(sessions, r.session_id, r.business_id)
       ELSE UNCHANGED <<conversations, sessions>>
    /\ thr' = IF StreamStatus(r) = 200
              THEN Put(thr, t, [pc |-> "streaming", sid |-> r.session_id,
                                delivered |-> 0])
              ELSE thr
    /\ Op([op |-> "chat_stream", request |-> r, status |-> StreamStatus(r),
           engine_called |-> FALSE])
    /\ UNCHANGED customers

\* the generator yields the next line of the engine's event stream
StreamFragment(t) ==
    /\ t \in DOMAIN thr /\ thr[t].pc = "streaming"
    /\ thr[t].delivered < MaxFragments
    /\ thr' = [thr EXCEPT ![t].delivered = @ + 1]
    /\ sessions' = [sessions EXCEPT ![thr[t].sid] = AfterFragment(@, "fragment")]
    /\ Op([op |-> "stream_fragment", t |-> t, engine_called |-> TRUE])
    /\ UNCHANGED <<customers, conversations>>

\* the stream ends: the engine's stream is exhausted ("done"), the request
\* to the engine fails and an error event is yielded ("errored"), or the
\* caller goes away and the generator is closed ("disconnected")
StreamStop(t, how) ==
    /\ t \in DOMAIN thr /\ thr[t].pc = "streaming"
    /\ thr' = [thr EXCEPT ![t].pc = how]
    /\ Op([op |-> "stream_stop", t |-> t, how |-> how, engine_called |-> TRUE])
    /\ UNCHANGED <<customers, conversations, sessions>>

MaxHttpOps == 4

NextHttp ==
    \/ /\ nOps < MaxHttpOps
       /\ \E r \in Requests : DoChat(r, R_booked)
    \/ /\ nOps < MaxHttpOps
       /\ \E r \in Requests, t \in Threads : DoChatStream(r, t)
    \/ /\ nOps < MaxHttpOps
       /\ \E t \in Threads : StreamFragment(t)
    \/ /\ nOps < MaxHttpOps
       /\ \E t \in Threads, how \in {"done", "errored", "disconnected"} :
             StreamStop(t, how)

SpecHttp == Init /\ [][NextHttp]_vars

\* A request with a body whose utterance is empty or blank, or whose
\* business id is not in the catalogue.
InvalidRequest(r) ==
    r.json /\ (Strip(r.message) = Empty \/ r.business_id \notin Catalogue)

\* C15: chat and chat_stream reject a request with an empty or blank
\* utterance or an unknown business id with a validation error (status 400)
\* before any processing: no session record is created or changed, nothing
\* is written to the directory, and the engine is not called.
C15_Validation ==
    [][((Performed("chat") \/ Performed("chat_stream"))
            /\ InvalidRequest(lastOp'.request)) =>
        /\ lastOp'.status = 400
        /\ ~lastOp'.engine_called
        /\ UNCHANGED <<sessions, conversations, customers, thr>>
    ]_vars

\* The part of C15 that holds: the non-streaming entry point.
ChatValidation ==
    [][(Performed("chat") /\ InvalidRequest(lastOp'.request)) =>
        /\ lastOp'.status = 400
        /\ ~lastOp'.engine_called
        /\ UNCHANGED <<sessions, conversations, customers, thr>>
    ]_vars

\* C17: in a streamed turn nothing is committed on account of the partial
\* answer: a step that delivers a fragment, and a step in which the stream
\* ends, errors or loses its caller, appends nothing to a history and
\* changes no session fact and no directory entry.
C17_NoPartialCommit ==
    [][(Performed("stream_fragment") \/ Performed("stream_stop")) =>
        UNCHANGED <<sessions, conversations, customers>>
    ]_vars

\* C17 witness: after a completed non-streaming turn, a streamed turn of the
\* same session delivered a fragment and then lost its caller; the session
\* memory record has no message.
C17_Witness ==
    /\ lastOp.op = "stream_stop"
    /\ lastOp.how = "disconnected"
    /\ thr[lastOp.t].delivered >= 1
    /\ conversations[thr[lastOp.t].sid].messages # << >>
    /\ sessions[thr[lastOp.t].sid].messages = << >>

----------------------------------------------------------------------------
(* The gateway to the reasoning engine (subconscious_api.py).  A transport *)
(* describes what the environment does during one call: whether the API    *)
(* key is configured, whether the SDK is importable and what its run does, *)
(* what the POST that creates the run does, and what the polls of the run  *)
(* answer, one after the other (a script; once it is exhausted the run is  *)
(* still running).                                                         *)

MaxPolls == 30

EngineAnswer == "Your table for 4 is booked."

\* the result records: {"success": True, "answer": ..., "raw": ...} and
\* {"success": False, "error": ..., "answer": ...}
Succeeded(answer) == [success |-> TRUE, answer |-> answer, raw |-> "run"]
Failed(answer, error) == [success |-> FALSE, error |-> error, answer |-> answer]
Raised(kind) == [raised |-> kind]
IsRaised(r) == "raised" \in DOMAIN r

A_no_key     == "I apologize, but I'm having technical difficulties. Please try again later."
A_no_answer  == "I received your message but couldn't generate a response. Please try again."
A_bad_status == "I apologize, but I'm experiencing some difficulties. Could you please repeat that?"
A_no_run     == "I apologize, but something went wrong. Please try again."
A_run_failed == "I apologize, but I couldn't process that request. Please try again."
A_poll_limit == "I'm sorry, that's taking longer than expected. Please try again."
A_timeout    == "I'm sorry, that took too long. Could you try asking again?"
A_connection == "I'm having trouble connecting. Please try again in a moment."
A_unexpected == "Something unexpected happened. Please try again."

\* the try block of _call_with_sdk
SdkBody(tr) ==
    IF tr.sdk = "raises" THEN Raised("Exception")
    ELSE IF tr.sdk = "answer" THEN Succeeded(EngineAnswer)
    ELSE Failed(A_no_answer, "No answer in response")

\* the poll loop: poll number i of the run, polls made so far in made
RECURSIVE PollLoop(_, _)
PollLoop(tr, i) ==
    IF i > MaxPolls
    THEN Failed(A_poll_limit, "Request timed out waiting for response")
    ELSE LET poll == IF i <= Len(tr.polls) THEN tr.polls[i] ELSE "running"
         IN  IF poll = "timeout" THEN Raised("Timeout")
             ELSE IF poll = "refused" THEN Raised("RequestException")
             ELSE IF poll = "crash" THEN Raised("Exception")
             ELSE IF poll = "http_error" THEN PollLoop(tr, i + 1)
             ELSE IF poll = "succeeded" THEN Succeeded(EngineAnswer)
             ELSE IF poll = "succeeded_empty"
                  THEN Failed(A_no_answer, "No answer in response")
             ELSE IF poll \in {"failed", "error", "cancelled"}
                  THEN Failed(A_run_failed, "Unknown error")
             ELSE PollLoop(tr, i + 1)

\* the try block of _call_with_http
HttpBody(tr) ==
    IF tr.post = "timeout" THEN Raised("Timeout")
    ELSE IF tr.post = "refused" THEN Raised("RequestException")
    ELSE IF tr.post = "crash" THEN Raised("Exception")
    ELSE IF tr.post = "status_500"
         THEN Failed(A_bad_status, "API returned status 500")
    ELSE IF tr.post = "accepted_direct" THEN Succeeded(EngineAnswer)
    ELSE IF tr.post = "accepted_no_run"
         THEN Failed(A_no_run, "No runId returned")
    ELSE PollLoop(tr, 1)

\* a _call_with_http without its except clauses
CallWithHttp_unguarded(tr) == HttpBody(tr)

\* _call_with_http: the try block and its three except clauses
CallWithHttp(tr) ==
    LET r == HttpBody(tr)
    IN  IF ~IsRaised(r) THEN r
        ELSE IF r.raised = "Timeout" THEN Failed(A_timeout, "Request timed out")
        ELSE IF r.raised = "RequestException"
             THEN Failed(A_connection, "RequestException")
        ELSE Failed(A_unexpected, "Exception")

\* _call_with_sdk: on any exception fall back to HTTP
CallWithSdk(tr) ==
    LET r == SdkBody(tr)
    IN  IF IsRaised(r) THEN CallWithHttp(tr) ELSE r

\* call_subconscious_api(instructions, engine, use_tools, tools)
CallSubconsciousApi(tr) ==
    IF ~tr.api_key
    THEN Failed(A_no_key,
                  "API key not configured. Set SUBCONSCIOUS_API_KEY environment variable.")
    ELSE IF tr.sdk_available THEN CallWithSdk(tr)
    ELSE CallWithHttp(tr)

PollScripts ==
    { << >>, <<"succeeded">>, <<"http_error", "succeeded">>,
      <<"running", "succeeded_empty">>, <<"failed">>, <<"running", "cancelled">>,
      <<"error">>, <<"timeout">>, <<"http_error", "refused">>, <<"running", "crash">> }

Transports ==
    [api_key : BOOLEAN, sdk_available : BOOLEAN,
     sdk : {"answer", "empty", "raises"},
     post : {"timeout", "refused", "crash", "status_500", "accepted_direct",
             "accepted_no_run", "accepted"},
     polls : PollScripts]

\* one call of the gateway
DoCallSubconsciousApi(tr) ==
    /\ Op([op |-> "call_subconscious_api", transport |-> tr,
           result |-> CallSubconsciousApi(tr)])
    /\ UNCHANGED <<customers, sessions, conversations, thr>>

MaxGatewayOps == 1

NextGateway ==
    /\ nOps < MaxGatewayOps
    /\ \E tr \in Transports : DoCallSubconsciousApi(tr)

SpecGateway == Init /\ [][NextGateway]_vars

Apologies ==
    {A_no_key, A_no_answer, A_bad_status, A_no_run, A_run_failed, A_poll_limit,
     A_timeout, A_connection, A_unexpected}

\* C16: call_subconscious_api never raises and always returns a result
\* record: success is true only with the non-empty answer of the engine;
\* otherwise success is false and the record has an error reason and a
\* non-empty apology as answer.
C16_GatewayNeverRaises ==
    lastOp.op = "call_subconscious_api" =>
        LET r == lastOp.result
        IN  /\ ~IsRaised(r)
            /\ {"success", "answer"} \subseteq DOMAIN r
            /\ r.success => (r.answer = EngineAnswer /\ r.answer # "")
            /\ ~r.success =>
                  ("error" \in DOMAIN r /\ r.answer \in Apologies /\ r.answer # "")

\* C16 witness: the SDK raised, the HTTP fallback created the run, one poll
\* got an HTTP error and the next one was refused; the call returned the
\* connection apology.
C16_Witness ==
    /\ lastOp.op = "call_subconscious_api"
    /\ lastOp.transport.api_key /\ lastOp.transport.sdk_available
    /\ lastOp.transport.sdk = "raises"
    /\ lastOp.transport.post = "accepted"
    /\ lastOp.transport.polls = <<"http_error", "refused">>
    /\ lastOp.result = Failed(A_connection, "RequestException")

----------------------------------------------------------------------------
(* The tool/search classifier (services/tools.py, should_use_tools).       *)

\* sub in s, for strings
Contains(s, sub) ==
    \E i \in 0..(Len(s) - Len(sub)) : SubSeq(s, i + 1, i + Len(sub)) = sub

research_keywords ==
    { <<"w","h","a","t"," ","i","s">>,
      <<"t","e","l","l"," ","m","e"," ","a","b","o","u","t">>,
      <<"h","o","w"," ","d","o"," ","i"," ","g","e","t"," ","t","o">>,
      <<"d","i","r","e","c","t","i","o","n","s">>,
      <<"w","h","e","r","e"," ","i","s">>,
      <<"n","e","a","r","b","y">>,
      <<"c","l","o","s","e"," ","t","o">>,
      <<"a","r","o","u","n","d"," ","h","e","r","e">>,
      <<"w","e","a","t","h","e","r">>,
      <<"t","r","a","f","f","i","c">>,
      <<"n","e","w","s">>,
      <<"l","a","t","e","s","t">>,
      <<"r","e","v","i","e","w","s">>,
      <<"r","a","t","i","n","g","s">>,
      <<"b","e","s","t">>,
      <<"r","e","c","o","m","m","e","n","d","e","d">>,
      <<"h","o","u","r","s">>,
      <<"o","p","e","n">>,
      <<"c","l","o","s","e","d">>,
      <<"w","e","b","s","i","t","e">>,
      <<"p","h","o","n","e"," ","n","u","m","b","e","r">>,
      <<"p","r","i","c","e"," ","o","f">>,
      <<"c","o","s","t"," ","o","f">>,
      <<"h","o","w"," ","m","u","c","h"," ","i","s">> }

booking_keywords ==
    { <<"b","o","o","k">>,
      <<"r","e","s","e","r","v","e">>,
      <<"a","p","p","o","i","n","t","m","e","n","t">>,
      <<"s","c","h","e","d","u","l","e">>,
      <<"a","v","a","i","l","a","b","l","e">>,
      <<"a","v","a","i","l","a","b","i","l","i","t","y">>,
      <<"c","a","n"," ","i"," ","g","e","t">>,
      <<"s","i","g","n"," ","u","p">>,
      <<"r","e","g","i","s","t","e","r">>,
      <<"m","e","m","b","e","r","s","h","i","p">> }

SearchTools == <<"web_search", "parallel_search">>

\* should_use_tools: (needs_research or needs_booking, tools)
ShouldUseTools(message) ==
    LET msg_lower      == Lower(message)
        needs_research == \E kw \in research_keywords : Contains(msg_lower, kw)
        needs_booking  == \E kw \in booking_keywords : Contains(msg_lower, kw)
    IN  [use   |-> needs_research \/ needs_booking,
         tools |-> IF needs_research THEN SearchTools ELSE << >>]

\* utterances: an opener or none, followed by a remark or none
OpenerTexts ==
    { <<"H","e","l","l","o",","," ">>,
      <<"Y","e","s",","," ">>,
      <<"M","y"," ","n","a","m","e"," ","i","s"," ","A","l",","," ">>,
      <<"O","k"," ","t","h","a","n","k","s",","," ">>,
      <<"G","o","o","d"," ","m","o","r","n","i","n","g",","," ">> }
RemarkTexts ==
    { <<"w","h","e","r","e"," ","i","s"," ","t","h","e"," ","p","o","o","l">>,
      <<"y","o","u"," ","c","o","m","e"," ","r","e","c","o","m","m","e","n","d","e","d">>,
      <<"f","i","n","d"," ","m","e"," ","a"," ","t","a","b","l","e">>,
      <<"b","o","o","k"," ","i","t">>,
      <<"W","h","a","t"," ","I","s"," ","t","h","e"," ","b","e","s","t"," ","w","i","n","e">>,
      <<"a","r","e"," ","y","o","u"," ","o","p","e","n">>,
      <<"s","h","o","w"," ","m","e"," ","t","h","e"," ","r","e","v","i","e","w","s">>,
      <<"s","e","e"," ","y","o","u">>,
      <<"s","e","a","r","c","h"," ","t","h","e"," ","l","a","t","e","s","t"," ","n","e","w","s">> }
ToolMessages ==
    {p \o b : p \in OpenerTexts \cup {Empty}, b \in RemarkTexts \cup {Empty}}

\* should_use_tools(message)
DoShouldUseTools(message) ==
    /\ Op([op |-> "should_use_tools", message |-> message,
           result |-> ShouldUseTools(message)])
    /\ UNCHANGED <<customers, sessions, conversations, thr>>

MaxToolOps == 2

NextTools ==
    /\ nOps < MaxToolOps
    /\ \E m \in ToolMessages : DoShouldUseTools(m)

SpecTools == Init /\ [][NextTools]_vars

\* An utterance that begins as a simple conversational opener: a greeting, a
\* confirmation, "my name is", a short acknowledgement.
IsOpener(message) ==
    \E p \in OpenerTexts : Len(message) >= Len(p) /\ SubSeq(message, 1, Len(p)) = p

\* An utterance with an explicit search verb.
SearchVerbs ==
    { <<"f","i","n","d">>,
      <<"s","e","a","r","c","h">>,
      <<"s","h","o","w">>,
      <<"w","h","a","t">>,
      <<"w","h","e","r","e">> }
HasSearchVerb(message) == \E v \in SearchVerbs : Contains(Lower(message), v)

\* C18: for an utterance that is a simple conversational opener the
\* classifier returns no-search, also when a search-indicating keyword
\* occurs in it, unless the utterance has an explicit search verb; then it
\* returns search.
C18_OpenerSuppressesSearch ==
    (lastOp.op = "should_use_tools" /\ IsOpener(lastOp.message)) =>
        IF HasSearchVerb(lastOp.message)
        THEN lastOp.result.tools = SearchTools
        ELSE lastOp.result.tools = << >>

----------------------------------------------------------------------------
\* C19: update_customer_details is idempotent: when the call that has just
\* been made on a session is made again with the same details, the second
\* call leaves the session's facts (every session record) and the directory
\* as the first call left them.
C19_UpdateIdempotent ==
    [][(Performed("update_customer_details") /\ lastOp'.again)
           => (sessions' = sessions /\ customers' = customers)]_vars

\* the same update made twice in a row on a session whose facts go to the
\* directory
C19_Witness ==
    /\ lastOp.op = "update_customer_details"
    /\ lastOp.again
    /\ lastOp.saved
    /\ \E i \in 1..Len(lastOp.details) : Storable(lastOp.details[i][2])

----------------------------------------------------------------------------
(* The order of a turn's steps (ConversationManager.add_message).          *)

\* the history a conversation holds
HistoryOf(cid) == conversations[cid].messages

\* a user utterance has just been extracted from and looked up
UtteranceProcessed == lastOp.op = "add_message" /\ lastOp.role = "user"

\* C20: every turn passes through RECEIVED, EXTRACTED, LOOKED_UP,
\* CONTEXT_BUILT, ANSWERED, RECORDED in this order, the extracted facts being
\* merged before the directory lookup of the turn: when the facts of an
\* utterance have been merged and the directory has been looked up, the turn
\* has not been answered yet, so the utterance is not yet recorded in the
\* history.
C20_StepOrder ==
    UtteranceProcessed => HistoryOf(lastOp.cid) = lastOp.before.messages

\* The part of the order that add_message keeps: the name an utterance gives
\* is merged before the lookup, so the lookup of the same turn finds the
\* entry the directory holds for it.
ExtractedBeforeLookup ==
    [][\A c \in DOMAIN conversations :
          LET before == conversations[c]
              after  == conversations'[c]
              stored == FindCustomer(customers, Get(after.customer_info, K_name),
                                     before.business_id)
          IN  (/\ Performed("add_message")
               /\ lastOp'.role = "user"
               /\ lastOp'.cid = c
               /\ ~KnowsName(before.customer_info)
               /\ KnowsName(after.customer_info)
               /\ stored.found
               /\ stored.entry # EmptyDict)
              => K_found_in_database \in DOMAIN after.customer_info]_vars

\* a turn that restored an entry under the name its own utterance gave
ExtractedBeforeLookup_Witness ==
    /\ UtteranceProcessed
    /\ ~KnowsName(lastOp.before.customer_info)
    /\ K_found_in_database \in DOMAIN conversations[lastOp.cid].customer_info

----------------------------------------------------------------------------
(* The prompt context of a turn (get_memory_summary, build_full_context,   *)
(* get_context_for_ai).                                                    *)

L_name == "Customer's name"
L_date == "Date"
L_time == "Time"
L_party == "Party size"
L_party_mentioned == "Party size mentioned"
L_seating == "Seating"
L_phone == "Phone number"
L_email == "Email"
L_service == "Service/Product"
L_date_mentioned == "Date mentioned"
L_membership_type == "Type"
L_membership_start == "Start date"
L_existing_service == "NOTE"

\* the lines get_memory_summary adds for one key, given the test it applies
SummaryLine(info, key, label, shown) ==
    IF shown THEN {<<label, info[key]>>} ELSE {}

\* get_memory_summary: "" when no line follows the header
MemorySummary(info) ==
    LET has(k)    == k \in DOMAIN info
        reserved  == Truthy(Get(info, K_reservation_date))
                        \/ Truthy(Get(info, K_reservation_time))
        member    == Truthy(Get(info, K_membership_type))
                        \/ Truthy(Get(info, K_membership_start_date))
        lines ==
            SummaryLine(info, K_name, L_name, has(K_name))
            \cup SummaryLine(info, K_reservation_date, L_date,
                             reserved /\ has(K_reservation_date))
            \cup SummaryLine(info, K_reservation_time, L_time,
                             reserved /\ has(K_reservation_time))
            \cup SummaryLine(info, K_party_size, L_party,
                             reserved /\ has(K_party_size))
            \cup SummaryLine(info, K_seating_preference, L_seating,
                             reserved /\ has(K_seating_preference))
            \cup SummaryLine(info, K_party_size, L_party_mentioned,
                             ~reserved /\ has(K_party_size))
            \cup SummaryLine(info, K_phone, L_phone, has(K_phone))
            \cup SummaryLine(info, K_email, L_email, has(K_email))
            \cup SummaryLine(info, K_service_type, L_service,
                             Truthy(Get(info, K_service_type)))
            \cup SummaryLine(info, K_date_mentioned, L_date_mentioned,
                             Truthy(Get(info, K_date_mentioned)))
            \cup SummaryLine(info, K_membership_type, L_membership_type,
                             member /\ has(K_membership_type))
            \cup SummaryLine(info, K_membership_start_date, L_membership_start,
                             member /\ has(K_membership_start_date))
            \cup SummaryLine(info, K_has_existing_service, L_existing_service,
                             Truthy(Get(info, K_has_existing_service)))
    IN  IF lines = {}
        THEN [empty |-> TRUE, returning |-> FALSE, lines |-> {}]
        ELSE [empty |-> FALSE,
              returning |-> Truthy(Get(info, K_found_in_database)),
              lines |-> lines]

\* build_full_context: the memory summary, the history and the current
\* message; the message alone for an unknown session
FullContext(cs, cid, current_message) ==
    IF cid \notin DOMAIN cs
    THEN [bare |-> TRUE, current |-> current_message]
    ELSE [bare |-> FALSE,
          memory |-> MemorySummary(cs[cid].customer_info),
          history |-> cs[cid].messages,
          current |-> current_message]

\* build_full_context(session_id, current_message)
DoBuildFullContext(cid, current_message) ==
    /\ Op([op |-> "build_full_context", cid |-> cid,
           prompt |-> FullContext(conversations, cid, current_message),
           prev |-> lastOp])
    /\ UNCHANGED <<customers, sessions, conversations, thr>>

MaxCtxOps == 4

CtxSeedNames == {N_John, N_Al}
CtxUtterances == {U_name, U_book}
CtxResults == {E_bare, E_failed}

NextCtx ==
    \/ /\ nOps < MaxCtxOps
       /\ \E n \in CtxSeedNames : DoSaveCustomer(n, B_hotel, F_phone7_p2)
    \/ /\ nOps < MaxCtxOps
       /\ DoGetOrCreate("c1", B_hotel)
    \/ /\ nOps < MaxCtxOps
       /\ \E u \in CtxUtterances : DoAddUserMessage("c1", u)
    \/ /\ nOps < MaxCtxOps
       /\ \E u \in CtxUtterances : DoBuildFullContext("c1", u.text)
    \/ /\ nOps < MaxCtxOps
       /\ \E e \in CtxResults :
             DoProcessMessageParallel("s1", B_hotel, "My name is Al", e, G_answers)
    \/ /\ nOps < MaxCtxOps
       /\ \E d \in PmpDetails : DoUpdateCustomerDetails("s1", d)
    \/ /\ nOps < MaxCtxOps
       /\ DoLookupCustomer("s1", N_Al)

SpecCtx == Init /\ [][NextCtx]_vars

\* the context handed to the response generator shows the session's facts
ShowsSessionFacts(context, details) ==
    /\ context.empty = (details = EmptyDict)
    /\ context.returning = (K_is_returning_customer \in DOMAIN details)
    /\ \A k \in DOMAIN details :
          k # K_is_returning_customer => <<DisplayKey(k), details[k]>> \in context.bullets

\* the prompt of the conversation manager shows the facts of the record
ShowsConversationFacts(prompt, info) ==
    /\ ~prompt.bare
    /\ prompt.memory.returning =
          (K_found_in_database \in DOMAIN info /\ ~prompt.memory.empty)
    /\ K_name \in DOMAIN info => <<L_name, info[K_name]>> \in prompt.memory.lines
    /\ K_phone \in DOMAIN info => <<L_phone, info[K_phone]>> \in prompt.memory.lines
    /\ K_party_size \in DOMAIN info =>
          \E l \in {L_party, L_party_mentioned} :
              <<l, info[K_party_size]>> \in prompt.memory.lines

RestoredInSameTurn ==
    /\ lastOp.op = "build_full_context"
    /\ lastOp.prev.op = "add_message"
    /\ lastOp.prev.role = "user"
    /\ lastOp.prev.cid = lastOp.cid
    /\ lastOp.prev.text = lastOp.prompt.current
    /\ K_found_in_database \notin DOMAIN lastOp.prev.before.customer_info
    /\ lastOp.prompt.memory.returning
    /\ <<L_phone, V_7>> \in lastOp.prompt.memory.lines

----------------------------------------------------------------------------
(* Directory lookups over the turns of a conversation.                     *)

MaxLookOps == 5

LookSeeds == {F_phone5, F_phone7_p2}
LookUtterances == {U_book, U_name, U_check}

\* the directory is written by other sessions and by the booking tool while
\* the conversations go on
NextLook ==
    \/ /\ nOps < MaxLookOps
       /\ \E f \in LookSeeds : DoSaveCustomer(N_John, B_hotel, f)
    \/ /\ nOps < MaxLookOps
       /\ \E c \in ConvIds : DoGetOrCreate(c, B_hotel)
    \/ /\ nOps < MaxLookOps
       /\ \E c \in ConvIds, u \in LookUtterances : DoAddUserMessage(c, u)
    \/ /\ nOps < MaxLookOps
       /\ \E c \in ConvIds : DoAddAssistantMessage(c, R_booked)

SpecLook == Init /\ [][NextLook]_vars

\* the utterance of the text an add_message recorded
UtteranceWith(text) == CHOOSE u \in Utterances : u.text = text

\* the facts of the record once the utterance of this step is extracted
ExtractedNow(c) ==
    ExtractCustomerInfo(conversations[c].customer_info,
                        UtteranceWith(lastOp'.text).facts)

UserTurn(c) ==
    /\ Performed("add_message")
    /\ lastOp'.role = "user"
    /\ lastOp'.cid = c

\* C22: the directory is queried in a turn only if a name fact is present
\* and the session is not flagged returning yet: a turn without a known name,
\* and every turn of a session already flagged, leaves the fact set as the
\* extraction of the utterance made it, with nothing merged from the
\* directory.
C22_LookupOnlyWhenDue ==
    [][\A c \in DOMAIN conversations :
          (/\ UserTurn(c)
           /\ \/ ~KnowsName(ExtractedNow(c))
              \/ K_found_in_database \in DOMAIN conversations[c].customer_info)
          => conversations'[c].customer_info = ExtractedNow(c)]_vars

\* The half add_message keeps: without a known name nothing is merged.
NoLookupWithoutName ==
    [][\A c \in DOMAIN conversations :
          (UserTurn(c) /\ ~KnowsName(ExtractedNow(c)))
          => conversations'[c].customer_info = ExtractedNow(c)]_vars

----------------------------------------------------------------------------
(* One conversation on a directory that starts empty: every entry is       *)
(* created by the write-back of this conversation.                         *)

MaxSoloOps == 5

NextSolo ==
    \/ /\ nOps < MaxSoloOps
       /\ \E b \in Businesses : DoGetOrCreate("c1", b)
    \/ /\ nOps < MaxSoloOps
       /\ \E u \in Utterances : DoAddUserMessage("c1", u)
    \/ /\ nOps < MaxSoloOps
       /\ \E r \in Replies : DoAddAssistantMessage("c1", r)

SpecSolo == Init /\ [][NextSolo]_vars

\* C23: a session is flagged as returning customer only on the basis of a
\* directory entry that existed before the session wrote to the directory;
\* where the session itself is the only writer of the directory, it is
\* never flagged.
C23_NewCustomerNotReturning ==
    \A c \in DOMAIN conversations :
        K_found_in_database \notin DOMAIN conversations[c].customer_info

----------------------------------------------------------------------------
(* Two sessions that hold the same customer.                               *)

MaxStaleOps == 5

D_al_p2 == << <<K_name, N_Al>>, <<K_party_size, V_2>> >>
StaleDetails == {D_name_p4, D_al_p2, D_phone}

NextStale ==
    \/ /\ nOps < MaxStaleOps
       /\ \E s \in SessionIds : DoGetSession(s, B_hotel)
    \/ /\ nOps < MaxStaleOps
       /\ \E s \in SessionIds, d \in StaleDetails : DoUpdateCustomerDetails(s, d)
    \/ /\ nOps < MaxStaleOps
       /\ \E s \in SessionIds : DoLookupCustomer(s, N_Al)

SpecStale == Init /\ [][NextStale]_vars

\* the directory key of the customer a fact set is held for
KeyOfDetails(details, business_id) == DbKey(NameOf(details), business_id)

\* C24: the write-back of a session never replaces a directory field with an
\* older value: a turn of a session that holds its customer's name and
\* observes nothing new for a field k leaves the value the directory holds
\* for k, which another session may have stored meanwhile, as it is.
C24_NoStaleWriteBack ==
    [][\A s \in DOMAIN sessions :
          LET before == sessions[s].customer_details
              after  == sessions'[s].customer_details
              b      == sessions[s].business_id
              key    == KeyOfDetails(before, b)
          IN  (/\ Performed("update_customer_details")
               /\ lastOp'.sid = s
               /\ Truthy(NameOf(before))
               /\ KeyOfDetails(after, b) = key
               /\ key \in DOMAIN customers)
              => \A k \in DOMAIN customers[key] \ {K_name, K_business_id} :
                    (k \in DOMAIN before /\ after[k] = before[k])
                    => customers'[key][k] = customers[key][k]]_vars

----------------------------------------------------------------------------
(* A conversation whose name fact changes.                                 *)

MaxRenameOps == 4

\* a short capitalized reply: "Please" is a stop word, "Yes" is taken as the
\* customer's name
N_Yes == <<"Y","e","s">>
U_yes == [text |-> "Yes Please", facts |-> Put(EmptyDict, K_name, N_Yes)]
RenameUtterances == {U_book, U_name, U_yes}

NextRename ==
    \/ /\ nOps < MaxRenameOps
       /\ \E c \in ConvIds, b \in Businesses : DoGetOrCreate(c, b)
    \/ /\ nOps < MaxRenameOps
       /\ \E c \in ConvIds, u \in RenameUtterances : DoAddUserMessage(c, u)
    \/ /\ nOps < MaxRenameOps
       /\ \E c \in ConvIds : DoAddAssistantMessage(c, R_booked)

SpecRename == Init /\ [][NextRename]_vars

\* the directory key of the name a conversation record holds
KeyOfInfo(conv) == DbKey(Get(conv.customer_info, K_name), conv.business_id)

\* C25: facts are written only to the directory entry of the name under
\* which they were observed or restored: when a user turn changes the name
\* fact of a session, no fact the session held before that turn is written
\* into the entry of the new name.
C25_FactsStayWithName ==
    [][\A c \in DOMAIN conversations :
          LET before == conversations[c]
              after  == conversations'[c]
              new    == KeyOfInfo(after)
          IN  (/\ UserTurn(c)
               /\ KnowsName(before.customer_info)
               /\ KeyOfInfo(before) # new
               /\ new \in DOMAIN customers')
              => \A k \in DOMAIN before.customer_info \ {K_name, K_business_id} :
                    k \in DOMAIN customers'[new] =>
                        /\ new \in DOMAIN customers
                        /\ k \in DOMAIN customers[new]
                        /\ customers'[new][k] = customers[new][k]]_vars

----------------------------------------------------------------------------
(* The history after a streamed turn.                                      *)

\* the complete answer of a stream that delivered n fragments
RECURSIVE StreamedAnswer(_)
StreamedAnswer(n) == IF n = 0 THEN "" ELSE StreamedAnswer(n - 1) \o "fragment"

\* what a non-streamed turn appends to a history
RecordedTurn(history, utterance, answer) ==
    /\ Len(history) >= 2
    /\ history[Len(history) - 1] = [role |-> "user", content |-> utterance]
    /\ history[Len(history)] = [role |-> "assistant", content |-> answer]

\* C26: after a streamed turn has completed, the session history holds the
\* customer utterance and the complete streamed answer of the turn, as a
\* non-streamed turn records them.
C26_StreamedTurnRecorded ==
    (lastOp.op = "stream_stop" /\ lastOp.how = "done") =>
        LET sid    == thr[lastOp.t].sid
            answer == StreamedAnswer(thr[lastOp.t].delivered)
        IN  \/ RecordedTurn(sessions[sid].messages, U_name.text, answer)
            \/ RecordedTurn(conversations[sid].messages, U_name.text, answer)

----------------------------------------------------------------------------
(* Recording an agent reply (_extract_from_confirmation).                  *)

confirmation_keywords ==
    { <<"r","e","s","e","r","v","e","d">>,
      <<"b","o","o","k","e","d">>,
      <<"c","o","n","f","i","r","m","e","d">>,
      <<"a","l","l"," ","s","e","t">>,
      <<"a","p","p","o","i","n","t","m","e","n","t"," ","i","s">> }

\* any(kw in msg_lower for kw in confirmation_keywords)
IsConfirmation(message) ==
    \E kw \in confirmation_keywords : Contains(Lower(message), kw)

R_allset ==
    [text |-> "You're all set!", confirms |-> TRUE,
     date |-> Empty, time |-> Empty, party |-> Empty]
ConfirmReplies == {R_help, R_booked, R_allset}

\* the characters of a reply
ReplyChars(text) ==
    IF text = R_help.text THEN <<"H","o","w"," ","c","a","n"," ","I"," ","h","e","l","p"," ","y","o","u","?">>
    ELSE IF text = R_booked.text
    THEN <<"Y","o","u","r"," ","t","a","b","l","e"," ","i","s"," ","b","o","o","k","e","d"," ","f","o","r"," ","2"," ","p","e","o","p","l","e"," ","t","o","m","o","r","r","o","w"," ","a","t"," ","7","p","m">>
    ELSE <<"Y","o","u","'","r","e"," ","a","l","l"," ","s","e","t","!">>

MaxConfirmOps == 4

NextConfirm ==
    \/ /\ nOps < MaxConfirmOps
       /\ \E c \in ConvIds : DoGetOrCreate(c, B_restaurant)
    \/ /\ nOps < MaxConfirmOps
       /\ \E c \in ConvIds, u \in {U_book, U_name} : DoAddUserMessage(c, u)
    \/ /\ nOps < MaxConfirmOps
       /\ \E c \in ConvIds, r \in ConfirmReplies : DoAddAssistantMessage(c, r)

SpecConfirm == Init /\ [][NextConfirm]_vars

ReservationKeys == {K_reservation_date, K_reservation_time, K_party_size}

\* C27: recording an agent reply changes the facts of the session only if
\* the reply contains a confirmation keyword; then has_reservation is set,
\* reservation date, time and party size may be added, none of these three
\* changes a value the session already holds, and no other fact changes.
C27_ConfirmationFrame ==
    [][\A c \in DOMAIN conversations :
          LET before == conversations[c].customer_info
              after  == conversations'[c].customer_info
          IN  (/\ Performed("add_message")
               /\ lastOp'.role = "assistant"
               /\ lastOp'.cid = c)
              => IF ~IsConfirmation(ReplyChars(lastOp'.text))
                 THEN after = before
                 ELSE /\ after[K_has_reservation] = PyTrue
                      /\ DOMAIN after \subseteq
                            DOMAIN before \cup ReservationKeys \cup {K_has_reservation}
                      /\ \A k \in DOMAIN before \ {K_has_reservation} :
                            after[k] = before[k]]_vars

\* a confirmation naming 2 people was recorded on a session that held party
\* size 4 and no time: the time was added, the party size kept
C27_Witness ==
    /\ lastOp.op = "add_message"
    /\ lastOp.role = "assistant"
    /\ lastOp.text = R_booked.text
    /\ Get(lastOp.before.customer_info, K_party_size) = V_4
    /\ K_reservation_time \notin DOMAIN lastOp.before.customer_info
    /\ conversations[lastOp.cid].customer_info[K_party_size] = V_4
    /\ conversations[lastOp.cid].customer_info[K_reservation_time] = V_7pm

----------------------------------------------------------------------------
(* The poll loop of _call_with_http, one poll per step.                    *)

PollResponses ==
    {"http_error", "running", "succeeded", "succeeded_empty", "failed", "error",
     "cancelled", "timeout", "refused", "crash"}

TerminalStatuses == {"succeeded", "succeeded_empty", "failed", "error", "cancelled"}

Pending == [pending |-> TRUE]

\* a loop in which a poll answered with a status other than 200 is not
\* counted
PollsAfter_uncounted(polls, response) ==
    IF response = "http_error" THEN polls ELSE polls + 1

\* for i in range(max_polls): every pass of the loop uses up one poll
PollsAfter(polls, response) == polls + 1

\* what one pass of the loop returns; Pending when the loop goes on
PollOutcome(response) ==
    IF response = "timeout" THEN Failed(A_timeout, "Request timed out")
    ELSE IF response = "refused" THEN Failed(A_connection, "RequestException")
    ELSE IF response = "crash" THEN Failed(A_unexpected, "Exception")
    ELSE IF response = "succeeded" THEN Succeeded(EngineAnswer)
    ELSE IF response = "succeeded_empty"
         THEN Failed(A_no_answer, "No answer in response")
    ELSE IF response \in {"failed", "error", "cancelled"}
         THEN Failed(A_run_failed, "Unknown error")
    ELSE Pending

\* the run was created and has an id: the loop starts
StartPolling(t) ==
    /\ t \notin DOMAIN thr
    /\ thr' = Put(thr, t, [pc |-> "polling", polls |-> 0, result |-> Pending])
    /\ lastOp' = [op |-> "create_run", t |-> t]
    /\ UNCHANGED <<customers, sessions, conversations, nOps>>

\* one pass of the loop: sleep, GET /runs/{run_id}, look at the answer
PollStep(t, response) ==
    /\ t \in DOMAIN thr /\ thr[t].pc = "polling"
    /\ thr[t].polls < MaxPolls
    /\ LET outcome == PollOutcome(response)
       IN  thr' = [thr EXCEPT ![t] =
                      [pc     |-> IF outcome = Pending THEN "polling" ELSE "returned",
                       polls  |-> PollsAfter(thr[t].polls, response),
                       result |-> outcome]]
    /\ lastOp' = [op |-> "poll", t |-> t, response |-> response]
    /\ UNCHANGED <<customers, sessions, conversations, nOps>>

\* the loop ran out: the timeout result
PollLimit(t) ==
    /\ t \in DOMAIN thr /\ thr[t].pc = "polling"
    /\ thr[t].polls >= MaxPolls
    /\ thr' = [thr EXCEPT ![t] =
                  [pc |-> "returned", polls |-> thr[t].polls,
                   result |-> Failed(A_poll_limit,
                                     "Request timed out waiting for response")]]
    /\ lastOp' = [op |-> "poll_limit", t |-> t]
    /\ UNCHANGED <<customers, sessions, conversations, nOps>>

NextPoll ==
    \/ StartPolling("t1")
    \/ \E response \in PollResponses : PollStep("t1", response)
    \/ PollLimit("t1")

\* the thread that runs the call goes on until the call returns
SpecPoll == Init /\ [][NextPoll]_vars /\ WF_vars(NextPoll)

Polling(t) == t \in DOMAIN thr /\ thr[t].pc = "polling"
Returned(t) == t \in DOMAIN thr /\ thr[t].pc = "returned"

\* at most MaxPolls polls, and the timeout result only when all are used
PollBudget ==
    \A t \in DOMAIN thr :
        /\ thr[t].polls <= MaxPolls
        /\ (Returned(t) /\ thr[t].result.answer = A_poll_limit)
              => thr[t].polls = MaxPolls

\* a poll with a terminal status returns at once with the result of that
\* status; any other poll that comes back uses up one poll of the budget
PollReturnsAtTerminal ==
    [][\A t \in DOMAIN thr :
          (lastOp'.op = "poll" /\ lastOp'.t = t /\ <<lastOp, thr>>' # <<lastOp, thr>>) =>
            /\ thr'[t].polls = thr[t].polls + 1
            /\ lastOp'.response \in TerminalStatuses =>
                  /\ Returned(t)'
                  /\ thr'[t].result.success = (lastOp'.response = "succeeded")
                  /\ ~thr'[t].result.success => thr'[t].result.answer \in Apologies
            /\ lastOp'.response \in {"http_error", "running"} => Polling(t)'
      ]_vars

\* C28: the submit-then-poll call always terminates: once the run is
\* created it polls at most 30 times, returns at the first poll with a
\* terminal status (success for succeeded with an answer, failure
\* otherwise), counts polls with a non-200 response or a non-terminal status
\* against the same budget, and returns the timeout failure with its
\* apology when the budget is used up.
C28_PollTerminates ==
    /\ []PollBudget
    /\ PollReturnsAtTerminal
    /\ \A t \in {"t1"} : Polling(t) ~> Returned(t)

\* the call returned the timeout apology after 30 polls that were answered
\* with a non-200 response or a non-terminal status
C28_Witness ==
    /\ Returned("t1")
    /\ thr["t1"].polls = MaxPolls
    /\ thr["t1"].result = Failed(A_poll_limit, "Request timed out waiting for response")
    /\ lastOp.op = "poll_limit"

----------------------------------------------------------------------------
(* The history of a session over many turns, one turn at a time.           *)

MaxPairOps == 12

\* the utterance of the n-th turn
TurnText(n) == "u" \o ToString(n)

NextPair ==
    /\ nOps < MaxPairOps
    /\ \E g \in {G_answers, G_raises} :
          DoProcessMessageParallel("s1", B_hotel, TurnText(nOps + 1), E_failed, g)

SpecPair == Init /\ [][NextPair]_vars

\* a history made of (customer, agent) pairs: the utterances of the latest
\* turns in turn order, each followed by an agent entry
PairsInTurnOrder(messages, turns) ==
    /\ Len(messages) % 2 = 0
    /\ Len(messages) <= HistoryWindow
    /\ \A i \in 1..Len(messages) :
          IF i % 2 = 1
          THEN /\ messages[i].role = "user"
               /\ messages[i].content = TurnText(turns - (Len(messages) - i - 1) \div 2)
          ELSE /\ messages[i].role = "assistant"
               /\ messages[i].content \in {G_answers.text, FallbackAnswer}

\* C29: with the turns of a session executed one at a time, after every
\* completed turn the history is a sequence of (customer utterance, agent
\* answer) pairs in turn order; the last pair is the utterance and the answer
\* of the turn just completed, and the truncation to the window leaves no
\* agent entry at the start and no customer entry at the end.
C29_HistoryPairs ==
    lastOp.op = "process_message_parallel" =>
        LET h == sessions[lastOp.sid].messages
        IN  /\ PairsInTurnOrder(h, nOps)
            /\ h[Len(h) - 1] = [role |-> "user", content |-> lastOp.message]
            /\ h[Len(h)] = [role |-> "assistant", content |-> lastOp.response]
            /\ Len(h) = IF 2 * nOps <= HistoryWindow THEN 2 * nOps ELSE HistoryWindow

\* the twelfth turn is completed: the window holds turns 3 to 12
C29_Witness ==
    /\ lastOp.op = "process_message_parallel"
    /\ nOps = 12
    /\ Len(sessions["s1"].messages) = HistoryWindow
    /\ sessions["s1"].messages[1] = [role |-> "user", content |-> TurnText(3)]

----------------------------------------------------------------------------
(* Two sessions side by side.                                              *)

MaxIsoOps == 4

IsoDetails == {D_name_p4, D_al_p2}

NextIso ==
    \/ /\ nOps < MaxIsoOps
       /\ \E s \in SessionIds : DoGetSession(s, B_hotel)
    \/ /\ nOps < MaxIsoOps
       /\ \E s \in SessionIds : DoAddMessage(s, "user", "My name is Al")
    \/ /\ nOps < MaxIsoOps
       /\ \E s \in SessionIds, d \in IsoDetails : DoUpdateCustomerDetails(s, d)
    \/ /\ nOps < MaxIsoOps
       /\ \E s \in SessionIds : DoLookupCustomer(s, N_Al)
    \/ /\ nOps < MaxIsoOps
       /\ \E s \in SessionIds : DoClearSession(s)
    \/ /\ nOps < MaxIsoOps
       /\ \E s \in SessionIds, g \in {G_answers, G_raises} :
             DoProcessMessageParallel(s, B_hotel, "I'd like a table for 4", E_failed, g)
    \/ /\ nOps < MaxIsoOps
       /\ \E c \in ConvIds : DoGetOrCreate(c, B_hotel)
    \/ /\ nOps < MaxIsoOps
       /\ \E c \in ConvIds, u \in {U_book, U_name} : DoAddUserMessage(c, u)
    \/ /\ nOps < MaxIsoOps
       /\ \E c \in ConvIds : DoAddAssistantMessage(c, R_booked)
    \/ /\ nOps < MaxIsoOps
       /\ \E c \in ConvIds : DoClear(c)

SpecIso == Init /\ [][NextIso]_vars

\* the session an operation was called on
TargetOf(op) ==
    IF "sid" \in DOMAIN op THEN op.sid
    ELSE IF "cid" \in DOMAIN op THEN op.cid
    ELSE "none"

\* the record a map holds for an id, if any
RecordAt(map, id) == IF id \in DOMAIN map THEN << map[id] >> ELSE << >>

\* C30: sessions are isolated: an operation on one session (get_or_create,
\* add_turn, update_facts, lookup_and_merge, reset, a whole turn) leaves the
\* record of every other session, with its history, fact set and returning
\* flag, as it was; only the directory carries anything from one session to
\* another.
C30_SessionsIsolated ==
    [][nOps' = nOps + 1 =>
          \A other \in SessionIds \cup ConvIds :
              other # TargetOf(lastOp') =>
                  /\ RecordAt(sessions', other) = RecordAt(sessions, other)
                  /\ RecordAt(conversations', other) = RecordAt(conversations, other)
      ]_vars

\* session s2 has just restored from the directory the party size session
\* s1 wrote there, and s1 still holds its own facts
C30_Witness ==
    /\ lastOp.op = "lookup_customer"
    /\ lastOp.sid = "s2"
    /\ lastOp.found
    /\ K_party_size \notin DOMAIN lastOp.before
    /\ "s1" \in DOMAIN sessions
    /\ Get(sessions["s1"].customer_details, K_party_size) = V_4
    /\ Get(sessions["s2"].customer_details, K_party_size) = V_4

====
